---- MODULE Spec2Model ----
(***************************************************************************)
(* A model of the American Express SDK for Go: the request validators of   *)
(* validation.go, and the service facades of payments.go, transactions.go  *)
(* and the token service on top of Client.doRequest.                       *)
(*                                                                         *)
(* Go strings are modelled as sequences of characters (runes); a character *)
(* is a one-character TLA+ string, or the code-point name "U+XXXX" of a    *)
(* character outside ASCII.  Go's len(s) counts the bytes of the UTF-8     *)
(* encoding, not the characters, so every character carries its width.     *)
(* A Go pointer is a sequence of length at most one: <<>> is nil, <<r>>    *)
(* points to the record r.  A Go error is the chain errors.Unwrap walks,   *)
(* outermost first; the nil error is the empty chain.                      *)
(***************************************************************************)
EXTENDS Integers, Sequences, FiniteSets, TLC

VARIABLES
    pc,      \* "idle", "inflight" (blocked in httpClient.Do) or "returned"
    call,    \* the invocation in progress: [op |-> name, req |-> argument]
    sent,    \* the HTTP requests this invocation has issued, in order
    resp,    \* what the transport delivered to this invocation (<<>> if nothing)
    result,  \* the error the invocation returned (<<>> is nil)
    ret,     \* the value the invocation returned beside the error: <<v>>, or <<>>
    mem,     \* the record behind the pointer a validator was given, as it is now
    verdicts, \* the errors the validator returned on that record, call after call
    ctx,     \* the context of the invocation: "live", "canceled" or "deadline"
    bodyState, \* the body of the response of the invocation: "none", "open", "closed"
    cfg,     \* the Config the caller holds: <<>> for a nil pointer, else <<record>>
    clients  \* the clients NewClient has built from it, in order

vars == <<pc, call, sent, resp, result, ret, mem, verdicts, ctx, bodyState, cfg,
          clients>>

(***************************************************************************)
(* Bounds of the model.                                                    *)
(***************************************************************************)
MaxDigits == 20      \* the longest card number tried
MaxCVVLen == 5       \* the longest CVV tried
MaxAmount == 1000000 \* the largest amount tried, in thousandths
MaxCalls == 3        \* the calls of a validator on one and the same record
MaxFilters == 3      \* the fields filled in a ListTransactionsRequest
MaxFields == 2       \* the fields of a struct given to encodeQuery
MaxCents == 600      \* the largest amount of whole cents given to FormatAmount
MaxClients == 2      \* the clients built from one Config

(***************************************************************************)
(* Strings.                                                                *)
(***************************************************************************)
Nil == <<>>

Digit == {"0", "1", "2", "3", "4", "5", "6", "7", "8", "9"}

Str3(a, b, c) == <<a, b, c>>

\* unicode.IsSpace, as strings.TrimSpace uses it, on the characters of the model
IsSpace(c) == c \in {" ", "\t", "\n", "\r", "U+00A0"}

\* the number of bytes of the UTF-8 encoding of a character
Utf8Width(c) ==
    CASE c \in {"U+00E9", "U+00C9", "U+00A0", "U+0663", "U+017F"} -> 2
      [] c \in {"U+20AC", "U+212A"} -> 3
      [] OTHER -> 1

RECURSIVE GoLen(_)
\* the builtin len(s) of a Go string: its length in bytes
GoLen(s) == IF s = <<>> THEN 0 ELSE Utf8Width(Head(s)) + GoLen(Tail(s))

\* strings.ReplaceAll(s, " ", "")
RemoveSpaces(s) == SelectSeq(s, LAMBDA c : c # " ")

RECURSIVE TrimLeft(_)
TrimLeft(s) == IF s # <<>> /\ IsSpace(Head(s)) THEN TrimLeft(Tail(s)) ELSE s

RECURSIVE TrimRight(_)
TrimRight(s) ==
    IF s # <<>> /\ IsSpace(s[Len(s)]) THEN TrimRight(SubSeq(s, 1, Len(s) - 1)) ELSE s

\* strings.TrimSpace(s)
TrimSpace(s) == TrimRight(TrimLeft(s))

\* the pattern with its upper bound one short: ^\d{13,18}$
CardNumberRegexMatch_UpperShort(s) ==
    /\ Len(s) >= 13
    /\ Len(s) <= 18
    /\ \A i \in 1..Len(s) : s[i] \in Digit

\* cardNumberRegex = ^\d{13,19}$ ; in Go's regexp \d is [0-9] and $ is the end of text
CardNumberRegexMatch(s) ==
    /\ Len(s) >= 13
    /\ Len(s) <= 19
    /\ \A i \in 1..Len(s) : s[i] \in Digit

(***************************************************************************)
(* float64 amounts: a number of thousandths, or NaN.                       *)
(***************************************************************************)
Float(n) == [nan |-> FALSE, milli |-> n]
NaN == [nan |-> TRUE, milli |-> 0]

\* the amount check with a strict comparison: a < 0
LeqZero_Strict(a) == ~a.nan /\ a.milli < 0

\* a <= 0 on float64: every comparison with NaN is false
LeqZero(a) == ~a.nan /\ a.milli <= 0

(***************************************************************************)
(* Errors.                                                                 *)
(***************************************************************************)
\* errors.New(text) held in a package variable: a sentinel errors.Is can find
Sentinel(name, text) == <<[id |-> name, text |-> text]>>

\* errors.New(text) at the place of the return: a value no caller can name
ErrorsNew(text) == <<[id |-> "errors.New", text |-> text]>>

\* fmt.Errorf(prefix + "%w" + suffix, err)
Errorf(prefix, err, suffix) ==
    <<[id |-> "fmt.wrapError", text |-> prefix \o err[1].text \o suffix]>> \o err

\* fmt.Errorf(text) without %w: an error that wraps nothing
FmtErrorf(text) == <<[id |-> "fmt.Errorf", text |-> text]>>

ErrInvalidCardNumber == Sentinel("ErrInvalidCardNumber", "invalid card number")
ErrInvalidExpiryDate == Sentinel("ErrInvalidExpiryDate", "invalid expiry date")
ErrInvalidCVV == Sentinel("ErrInvalidCVV", "invalid CVV")
ErrInvalidAmount == Sentinel("ErrInvalidAmount", "invalid amount")
ErrInvalidCurrency == Sentinel("ErrInvalidCurrency", "invalid currency")

\* errors.Is(err, target) for a sentinel target
ErrorsIs(err, target) == \E i \in 1..Len(err) : err[i].id = target[1].id

\* err.Error()
ErrorText(err) == err[1].text

(***************************************************************************)
(* validation.go: ValidateCardDetails.                                     *)
(***************************************************************************)
\* card.ExpiryMonth < 1 || card.ExpiryMonth > 12
ExpiryMonthOutOfRange(c) == c.ExpiryMonth < 1 \/ c.ExpiryMonth > 12

\* the year check with its upper bound excluded: >= 2099
ExpiryYearOutOfRange_Exclusive(c) == c.ExpiryYear < 2020 \/ c.ExpiryYear >= 2099

\* card.ExpiryYear < 2020 || card.ExpiryYear > 2099
ExpiryYearOutOfRange(c) == c.ExpiryYear < 2020 \/ c.ExpiryYear > 2099

\* len(card.CVV) < 3 || len(card.CVV) > 4
CVVLengthInvalid(c) == GoLen(c.CVV) < 3 \/ GoLen(c.CVV) > 4

\* !cardNumberRegex.MatchString(strings.ReplaceAll(card.Number, " ", ""))
CardNumberInvalid(c) == ~CardNumberRegexMatch(RemoveSpaces(c.Number))

ValidateCardDetails(card) ==
    IF card = Nil THEN ErrorsNew("card details cannot be nil")
    ELSE LET c == card[1] IN
        IF CardNumberInvalid(c) THEN ErrInvalidCardNumber
        ELSE IF ExpiryMonthOutOfRange(c)
            THEN Errorf("", ErrInvalidExpiryDate, ": month must be 1-12")
        ELSE IF ExpiryYearOutOfRange(c)
            THEN Errorf("", ErrInvalidExpiryDate, ": year must be 2020-2099")
        ELSE IF CVVLengthInvalid(c) THEN ErrInvalidCVV
        ELSE IF TrimSpace(c.HolderName) = <<>>
            THEN ErrorsNew("holder name cannot be empty")
        ELSE Nil

(***************************************************************************)
(* validation.go: ValidatePaymentRequest.                                  *)
(***************************************************************************)
\* the wrapping with %v in the place of %w: the text is kept, the chain is lost
WrapCardDetailsError_NoUnwrap(err) == FmtErrorf("invalid card details: " \o err[1].text)

\* the wrapping of a card-details failure: fmt.Errorf("invalid card details: %w", err)
WrapCardDetailsError(err) == Errorf("invalid card details: ", err, "")

\* req.Currency == "" , then len(req.Currency) != 3
CurrencyCheck(currency) ==
    IF currency = <<>> THEN ErrInvalidCurrency
    ELSE IF GoLen(currency) # 3
        THEN Errorf("", ErrInvalidCurrency, ": currency must be 3 characters")
    ELSE Nil

\* the payment-method check with || in the place of &&
PaymentMethodMissing_Either(r) == r.CardToken = <<>> \/ r.CardDetails = Nil

\* req.CardToken == "" && req.CardDetails == nil
PaymentMethodMissing(r) == r.CardToken = <<>> /\ r.CardDetails = Nil

\* the validator with the currency check moved in front of the amount check
ValidatePaymentRequest_CurrencyFirst(req) ==
    IF req = Nil THEN ErrorsNew("payment request cannot be nil")
    ELSE LET r == req[1] IN
        IF CurrencyCheck(r.Currency) # Nil THEN CurrencyCheck(r.Currency)
        ELSE IF LeqZero(r.Amount) THEN ErrInvalidAmount
        ELSE IF TrimSpace(r.MerchantID) = <<>>
            THEN ErrorsNew("merchant ID cannot be empty")
        ELSE IF PaymentMethodMissing(r)
            THEN ErrorsNew("either card token or card details must be provided")
        ELSE IF r.CardDetails # Nil /\ ValidateCardDetails(r.CardDetails) # Nil
            THEN WrapCardDetailsError(ValidateCardDetails(r.CardDetails))
        ELSE Nil

ValidatePaymentRequest(req) ==
    IF req = Nil THEN ErrorsNew("payment request cannot be nil")
    ELSE LET r == req[1] IN
        IF LeqZero(r.Amount) THEN ErrInvalidAmount
        ELSE IF CurrencyCheck(r.Currency) # Nil THEN CurrencyCheck(r.Currency)
        ELSE IF TrimSpace(r.MerchantID) = <<>>
            THEN ErrorsNew("merchant ID cannot be empty")
        ELSE IF PaymentMethodMissing(r)
            THEN ErrorsNew("either card token or card details must be provided")
        ELSE IF r.CardDetails # Nil /\ ValidateCardDetails(r.CardDetails) # Nil
            THEN WrapCardDetailsError(ValidateCardDetails(r.CardDetails))
        ELSE Nil

(***************************************************************************)
(* validation.go: ValidateTokenRequest.                                    *)
(***************************************************************************)
\* the validator that would also demand a customer id
ValidateTokenRequest_CustomerRequired(req) ==
    IF req = Nil THEN ErrorsNew("token request cannot be nil")
    ELSE IF req[1].CardDetails = Nil
        THEN ErrorsNew("card details are required for token creation")
    ELSE IF req[1].CustomerID = <<>>
        THEN ErrorsNew("customer ID cannot be empty")
    ELSE ValidateCardDetails(req[1].CardDetails)

ValidateTokenRequest(req) ==
    IF req = Nil THEN ErrorsNew("token request cannot be nil")
    ELSE IF req[1].CardDetails = Nil
        THEN ErrorsNew("card details are required for token creation")
    ELSE ValidateCardDetails(req[1].CardDetails)

(***************************************************************************)
(* validation.go: SupportedCurrencies and IsSupportedCurrency, which       *)
(* compares with strings.EqualFold: equality of the two strings, character *)
(* by character, under simple Unicode case folding.                        *)
(***************************************************************************)
UpperLetters ==
    <<"A", "B", "C", "D", "E", "F", "G", "H", "I", "J", "K", "L", "M",
      "N", "O", "P", "Q", "R", "S", "T", "U", "V", "W", "X", "Y", "Z">>

LowerLetters ==
    <<"a", "b", "c", "d", "e", "f", "g", "h", "i", "j", "k", "l", "m",
      "n", "o", "p", "q", "r", "s", "t", "u", "v", "w", "x", "y", "z">>

\* the characters unicode.SimpleFold cycles through from c: the two cases of a
\* letter, with the Kelvin sign (U+212A) beside K and k, the long s (U+017F)
\* beside S and s, and the two cases of e acute; c alone for any other character
FoldOrbit(c) ==
    IF c \in {"K", "k", "U+212A"} THEN {"K", "k", "U+212A"}
    ELSE IF c \in {"S", "s", "U+017F"} THEN {"S", "s", "U+017F"}
    ELSE IF c \in {"U+00E9", "U+00C9"} THEN {"U+00E9", "U+00C9"}
    ELSE IF \E i \in 1..26 : c \in {UpperLetters[i], LowerLetters[i]}
        THEN LET i == CHOOSE j \in 1..26 : c \in {UpperLetters[j], LowerLetters[j]}
             IN  {UpperLetters[i], LowerLetters[i]}
    ELSE {c}

\* strings.EqualFold(s, t)
EqualFold(s, t) ==
    /\ Len(s) = Len(t)
    /\ \A i \in 1..Len(s) : t[i] \in FoldOrbit(s[i])

SupportedCurrencies ==
    <<Str3("U", "S", "D"), Str3("E", "U", "R"), Str3("G", "B", "P"),
      Str3("C", "A", "D"), Str3("A", "U", "D"), Str3("J", "P", "Y"),
      Str3("C", "H", "F"), Str3("S", "G", "D"), Str3("H", "K", "D"),
      Str3("S", "E", "K"), Str3("N", "O", "K"), Str3("D", "K", "K"),
      Str3("P", "L", "N"), Str3("C", "Z", "K"), Str3("H", "U", "F"),
      Str3("I", "L", "S"), Str3("M", "X", "N"), Str3("B", "R", "L"),
      Str3("A", "R", "S"), Str3("C", "L", "P")>>

\* the lookup that compares the bytes as they are
IsSupportedCurrency_CaseSensitive(currency) ==
    \E i \in 1..Len(SupportedCurrencies) : SupportedCurrencies[i] = currency

IsSupportedCurrency(currency) ==
    \E i \in 1..Len(SupportedCurrencies) :
        EqualFold(SupportedCurrencies[i], currency)

(***************************************************************************)
(* ValidateTransactionRequest: called by AuthorizeTransaction and by the   *)
(* tests of transactions_test.go, defined in no file of src/.  Modelled    *)
(* from the specification's algorithm (steps 1 to 7) with the messages the *)
(* tests expect: the amount, currency, merchant, payment-method and        *)
(* card-details checks of a payment request, then the capture mode.        *)
(***************************************************************************)
\* the capture-mode check that knows "auto" alone
CaptureModeInvalid_AutoOnly(r) ==
    /\ r.CaptureMode # <<>>
    /\ r.CaptureMode # <<"a", "u", "t", "o">>

\* capture mode non-empty and neither "auto" nor "manual"
CaptureModeInvalid(r) ==
    /\ r.CaptureMode # <<>>
    /\ r.CaptureMode # <<"a", "u", "t", "o">>
    /\ r.CaptureMode # <<"m", "a", "n", "u", "a", "l">>

ValidateTransactionRequest(req) ==
    IF req = Nil THEN ErrorsNew("transaction request cannot be nil")
    ELSE LET r == req[1] IN
        IF LeqZero(r.Amount) THEN ErrInvalidAmount
        ELSE IF CurrencyCheck(r.Currency) # Nil THEN CurrencyCheck(r.Currency)
        ELSE IF TrimSpace(r.MerchantID) = <<>>
            THEN ErrorsNew("merchant ID cannot be empty")
        ELSE IF r.CardToken = <<>> /\ r.CardDetails = Nil
            THEN ErrorsNew("either card token or card details must be provided")
        ELSE IF r.CardDetails # Nil /\ ValidateCardDetails(r.CardDetails) # Nil
            THEN Errorf("invalid card details: ", ValidateCardDetails(r.CardDetails), "")
        ELSE IF CaptureModeInvalid(r)
            THEN ErrorsNew("capture mode must be 'auto' or 'manual'")
        ELSE Nil

(***************************************************************************)
(* The inputs the validators are tried on.                                 *)
(***************************************************************************)
Repeat(c, n) == [i \in 1..n |-> c]

\* a card number of n digits
Digits(n) == [i \in 1..n |-> IF i = 1 THEN "4" ELSE "1"]

RECURSIVE Grouped(_)
\* s written in groups of four characters with a space between the groups
Grouped(s) ==
    IF Len(s) <= 4 THEN s
    ELSE SubSeq(s, 1, 4) \o <<" ">> \o Grouped(SubSeq(s, 5, Len(s)))

WithLast(s, c) == [i \in 1..Len(s) |-> IF i = Len(s) THEN c ELSE s[i]]

NumberLengths == {3} \cup (12..MaxDigits)

CardNumbers ==
    {Digits(n) : n \in NumberLengths}
    \cup {Grouped(Digits(n)) : n \in NumberLengths}
    \cup {WithLast(Digits(n), "a") : n \in NumberLengths}
    \cup {<<>>, WithLast(Digits(16), "\t"), WithLast(Digits(16), "U+0663")}

ExpiryMonths == {0, 1, 12, 13}

ExpiryYears == {2019, 2020, 2099, 2100}

CVVs ==
    {Repeat(c, n) : c \in {"1", "a"}, n \in 2..MaxCVVLen}
    \cup {<<>>, <<"U+20AC">>, Repeat("U+00E9", 3), <<"U+00E9", "1", "2">>}

HolderNames == {<<>>, <<" ", "\t">>, <<"J", "o", "e">>}

CardDetails ==
    [Number : CardNumbers, ExpiryMonth : ExpiryMonths, ExpiryYear : ExpiryYears,
     CVV : CVVs, HolderName : HolderNames]

\* the cards carried by payment and token requests
RequestCards ==
    [Number : {Digits(16), Grouped(Digits(16)), Digits(12)},
     ExpiryMonth : {12, 13}, ExpiryYear : {2099, 2100},
     CVV : {Repeat("1", 3), Repeat("1", 2)},
     HolderName : {<<"J", "o", "e">>, <<" ">>}]

\* the cards carried by transaction requests
TransactionCards ==
    {c \in RequestCards :
        /\ c.ExpiryMonth = 12 /\ c.ExpiryYear = 2099
        /\ c.Number # Digits(12) /\ c.HolderName # <<" ">>}

Pointers(S) == {Nil} \cup {<<x>> : x \in S}

Amounts == {Float(0 - 1), Float(0), Float(1), Float(MaxAmount), NaN}

Currencies ==
    {<<>>, <<"U", "S">>, Str3("U", "S", "D"), Str3("X", "X", "X"),
     <<"U", "S", "D", "X">>, <<"U+20AC">>, Repeat("U+00E9", 3)}

MerchantIDs == {<<>>, <<" ", "\t">>, <<"m", "1">>}

CardTokens == {<<>>, <<"t", "o", "k">>}

CaptureModes ==
    {<<>>, <<"a", "u", "t", "o">>, <<"m", "a", "n", "u", "a", "l">>,
     <<"A", "U", "T", "O">>, <<"i", "n", "v", "a", "l", "i", "d">>}

PaymentRequests ==
    [Amount : Amounts, Currency : Currencies, MerchantID : MerchantIDs,
     CardToken : CardTokens, CardDetails : Pointers(RequestCards)]

TransactionRequests ==
    [Amount : Amounts, Currency : Currencies, MerchantID : MerchantIDs,
     CardToken : CardTokens, CardDetails : Pointers(TransactionCards),
     CaptureMode : CaptureModes]

CustomerIDs == {<<>>, <<"c", "1">>}

Descriptions == {<<>>, <<"g", "i", "f", "t">>}

TokenRequests ==
    [CardDetails : Pointers(RequestCards), CustomerID : CustomerIDs,
     Description : Descriptions, SingleUse : BOOLEAN]

\* s with the letters at the positions of the set at in lower case
LowerAt(s, at) ==
    [i \in 1..Len(s) |->
        IF i \in at /\ \E j \in 1..26 : UpperLetters[j] = s[i]
        THEN LowerLetters[CHOOSE j \in 1..26 : UpperLetters[j] = s[i]]
        ELSE s[i]]

\* the strings IsSupportedCurrency is asked about: the codes of the list in every
\* mix of cases, the three-character strings over a few characters, and strings
\* that are shorter, longer or padded
CurrencyQueries ==
    {LowerAt(SupportedCurrencies[i], at) :
        i \in 1..Len(SupportedCurrencies), at \in SUBSET (1..3)}
    \cup {Str3(a, b, c) : a, b, c \in {"U", "S", "D", "k", "X", "U+212A", "U+017F"}}
    \cup Currencies
    \cup {<<"U", "S", "D", " ">>, <<" ", "U", "S", "D">>, <<"E", "U">>,
          <<"E", "U", "R", "O">>, Str3("U", "S", "1")}

(***************************************************************************)
(* The validators called on their own.                                     *)
(***************************************************************************)
NoCall == [op |-> "none", req |-> Nil]

Init ==
    /\ pc = "idle"
    /\ call = NoCall
    /\ sent = <<>>
    /\ resp = <<>>
    /\ result = Nil
    /\ ret = <<>>
    /\ mem = Nil
    /\ verdicts = <<>>
    /\ ctx = "live"
    /\ bodyState = "none"
    /\ cfg = Nil
    /\ clients = <<>>

\* the validator that would store the card number it has stripped of its spaces
RecordAfter_NumberNormalised(op, req) ==
    IF op = "ValidateCardDetails" /\ req # Nil
    THEN <<[req[1] EXCEPT !.Number = RemoveSpaces(@)]>>
    ELSE req

\* what a validator leaves behind the pointer it was given: the four functions
\* read the fields of the record (copying the card number before they strip it) and
\* store into none of them
RecordAfter(op, req) == req

\* a validator returns its verdict to the caller
Validated(op, req, err) ==
    /\ pc' = "returned"
    /\ call' = [op |-> op, req |-> req]
    /\ result' = err
    /\ mem' = RecordAfter(op, req)
    /\ verdicts' = <<err>>
    /\ UNCHANGED <<sent, resp, ret, ctx, bodyState, cfg, clients>>

CallValidateCardDetails ==
    /\ pc = "idle"
    /\ \E card \in Pointers(CardDetails) :
        Validated("ValidateCardDetails", card, ValidateCardDetails(card))

CallValidatePaymentRequest ==
    /\ pc = "idle"
    /\ \E req \in Pointers(PaymentRequests) :
        Validated("ValidatePaymentRequest", req, ValidatePaymentRequest(req))

CallValidateTokenRequest ==
    /\ pc = "idle"
    /\ \E req \in Pointers(TokenRequests) :
        Validated("ValidateTokenRequest", req, ValidateTokenRequest(req))

CallValidateTransactionRequest ==
    /\ pc = "idle"
    /\ \E req \in Pointers(TransactionRequests) :
        Validated("ValidateTransactionRequest", req, ValidateTransactionRequest(req))

CallIsSupportedCurrency ==
    /\ pc = "idle"
    /\ \E currency \in CurrencyQueries :
        /\ pc' = "returned"
        /\ call' = [op |-> "IsSupportedCurrency", req |-> <<currency>>]
        /\ ret' = <<IsSupportedCurrency(currency)>>
        /\ UNCHANGED <<sent, resp, result, mem, verdicts, ctx, bodyState, cfg, clients>>

Validators ==
    {"ValidateCardDetails", "ValidatePaymentRequest", "ValidateTokenRequest",
     "ValidateTransactionRequest"}

Validate(op, req) ==
    CASE op = "ValidateCardDetails" -> ValidateCardDetails(req)
      [] op = "ValidatePaymentRequest" -> ValidatePaymentRequest(req)
      [] op = "ValidateTokenRequest" -> ValidateTokenRequest(req)
      [] op = "ValidateTransactionRequest" -> ValidateTransactionRequest(req)

\* the caller passes the same pointer to the same validator once more
ValidateAgain ==
    /\ pc = "returned"
    /\ call.op \in Validators
    /\ Len(verdicts) < MaxCalls
    /\ result' = Validate(call.op, mem)
    /\ verdicts' = Append(verdicts, Validate(call.op, mem))
    /\ mem' = RecordAfter(call.op, mem)
    /\ UNCHANGED <<pc, call, sent, resp, ret, ctx, bodyState, cfg, clients>>

\* the caller takes the result; the next call starts afresh
Return ==
    /\ pc = "returned"
    /\ pc' = "idle"
    /\ call' = NoCall
    /\ sent' = <<>>
    /\ resp' = <<>>
    /\ result' = Nil
    /\ ret' = <<>>
    /\ mem' = Nil
    /\ verdicts' = <<>>
    /\ ctx' = "live"
    /\ bodyState' = "none"
    /\ UNCHANGED <<cfg, clients>>

NextValidate ==
    \/ CallValidateCardDetails
    \/ CallValidatePaymentRequest
    \/ CallValidateTokenRequest
    \/ CallValidateTransactionRequest
    \/ CallIsSupportedCurrency
    \/ ValidateAgain
    \/ Return

SpecValidate == Init /\ [][NextValidate]_vars

(***************************************************************************)
(* client.go: Client.doRequest, from the marshalling of the body to        *)
(* httpClient.Do, and from the return of Do to the return of doRequest.    *)
(***************************************************************************)
\* json.Marshal fails on a float that is NaN (json.UnsupportedValueError)
MarshalFails(body) ==
    /\ body # Nil
    /\ "Amount" \in DOMAIN body[1]
    /\ body[1].Amount.nan

JsonUnsupportedValue ==
    <<[id |-> "*json.UnsupportedValueError", text |-> "json: unsupported value: NaN"]>>

\* the error doRequest returns before it issues anything, Nil when it goes on
DoRequestMarshalError(body) ==
    IF MarshalFails(body)
    THEN Errorf("failed to marshal request body: ", JsonUnsupportedValue, "")
    ELSE Nil

\* what httpClient.Do can deliver
TransportCauses == {"dial tcp: connection refused", "context canceled",
                    "context deadline exceeded"}

Statuses == {200, 204, 302, 304, 400, 404, 500}

\* a body that decodes, one that is not JSON, one whose reading fails, and a JSON
\* body that carries a status_code field of its own (418)
BodyKinds == {"json", "garbage", "unreadable", "json_status"}

Outcomes ==
    [kind : {"error"}, cause : TransportCauses]
    \cup [kind : {"response"}, status : Statuses, body : BodyKinds]

\* the error of httpClient.Do: a *url.Error around the error of the context, or
\* around that of the network
TransportError(cause) ==
    <<[id |-> "*url.Error", text |-> cause],
      CASE cause = "context canceled" ->
                [id |-> "context.Canceled", text |-> cause]
        [] cause = "context deadline exceeded" ->
                [id |-> "context.DeadlineExceeded", text |-> cause]
        [] OTHER -> [id |-> "*net.OpError", text |-> cause]>>

\* the transport that would not be given the context of the caller
DoOutcomes_ContextIgnored(c) ==
    IF c = "live" THEN Outcomes \ {[kind |-> "error", cause |-> "context canceled"]}
    ELSE Outcomes

\* what httpClient.Do can return under the context the request was built with
\* (http.NewRequestWithContext): anything while the context is live, the error of
\* the context once it is done
DoOutcomes(c) ==
    CASE c = "live" -> Outcomes \ {[kind |-> "error", cause |-> "context canceled"]}
      [] c = "canceled" -> {[kind |-> "error", cause |-> "context canceled"]}
      [] c = "deadline" -> {[kind |-> "error", cause |-> "context deadline exceeded"]}

\* (*APIError).Error()
APIErrorText(e) ==
    "amex api error: " \o ToString(e.StatusCode) \o " - " \o e.Message
        \o " (" \o e.Code \o ")"

\* the *APIError built from a response of status >= 400
APIErrorOf(o) ==
    LET fields ==
            CASE o.body = "unreadable" ->
                    [StatusCode |-> o.status, Message |-> "failed to read error response",
                     Code |-> ""]
              [] o.body = "garbage" ->
                    [StatusCode |-> o.status, Message |-> "<body>", Code |-> ""]
              [] o.body = "json" ->
                    [StatusCode |-> o.status, Message |-> "declined", Code |-> "E1"]
              [] o.body = "json_status" ->
                    \* json.Unmarshal into apiErr stores the body's status_code, here 418
                    [StatusCode |-> 418, Message |-> "declined", Code |-> "E1"]
    IN  <<[id |-> "*APIError", text |-> APIErrorText(fields),
           StatusCode |-> fields.StatusCode, Message |-> fields.Message,
           Code |-> fields.Code]>>

\* what doRequest returns once Do has returned: the response and the error
DoRequestFinish(o) ==
    IF o.kind = "error"
    THEN [resp |-> Nil, err |-> Errorf("request failed: ", TransportError(o.cause), "")]
    ELSE IF o.status >= 400
    THEN [resp |-> Nil, err |-> APIErrorOf(o)]
    ELSE [resp |-> <<o>>, err |-> Nil]

(***************************************************************************)
(* The service facades: CreatePayment (payments.go), AuthorizeTransaction  *)
(* and SearchTransactions (transactions.go), CreateToken (the token        *)
(* service).                                                               *)
(***************************************************************************)
RECURSIVE Itoa(_)
\* fmt.Sprintf("%d", n) for n >= 0
Itoa(n) ==
    LET d == <<"0", "1", "2", "3", "4", "5", "6", "7", "8", "9">>
    IN  IF n < 10 THEN <<d[n + 1]>> ELSE Itoa(n \div 10) \o <<d[(n % 10) + 1]>>

\* url.Values.Add(key, value) on the values q
QueryAdd(q, key, value) ==
    IF key \in DOMAIN q THEN [q EXCEPT ![key] = Append(@, value)]
    ELSE [k \in DOMAIN q \cup {key} |-> IF k = key THEN <<value>> ELSE q[k]]

\* query.Add(key, value) if the condition holds
QueryAddIf(cond, q, key, value) == IF cond THEN QueryAdd(q, key, value) ELSE q

EmptyQuery == [k \in {} |-> <<>>]

\* strconv.FormatInt(n, 10)
FormatInt(n) == IF n < 0 THEN <<"-">> \o Itoa(0 - n) ELSE Itoa(n)

\* strconv.FormatBool(b)
FormatBool(b) == IF b THEN <<"t", "r", "u", "e">> ELSE <<"f", "a", "l", "s", "e">>

\* strconv.FormatFloat(a, 'f', -1, 64): the shortest decimal that gives a back
FormatFloat(a) ==
    IF a.nan THEN <<"N", "a", "N">>
    ELSE LET n == IF a.milli < 0 THEN 0 - a.milli ELSE a.milli
             f == n % 1000
             frac == IF f = 0 THEN <<>>
                     ELSE IF f % 100 = 0 THEN <<".">> \o Itoa(f \div 100)
                     ELSE IF f % 10 = 0
                         THEN <<".">> \o Itoa(f \div 100) \o Itoa((f \div 10) % 10)
                     ELSE <<".">> \o Itoa(f \div 100) \o Itoa((f \div 10) % 10)
                              \o Itoa(f % 10)
         IN  (IF a.milli < 0 THEN <<"-">> ELSE <<>>) \o Itoa(n \div 1000) \o frac

\* the switch of encodeQuery that would take a false for an empty value
FieldValue_FalseSkipped(f) ==
    CASE f.kind = "string" -> f.val
      [] f.kind = "int" -> IF f.val # 0 THEN FormatInt(f.val) ELSE <<>>
      [] f.kind = "bool" -> IF f.val THEN FormatBool(f.val) ELSE <<>>
      [] f.kind = "float" ->
            IF f.val.nan \/ f.val.milli # 0 THEN FormatFloat(f.val) ELSE <<>>
      [] OTHER -> <<>>

\* utils.go, the switch on field.Kind(): the text of the field f of a struct, a
\* field being [tag |-> its url tag, kind |-> its kind, val |-> its value]; the
\* empty string for a kind the switch has no case for (a pointer that is not nil)
FieldValue(f) ==
    CASE f.kind = "string" -> f.val
      [] f.kind = "int" -> IF f.val # 0 THEN FormatInt(f.val) ELSE <<>>
      [] f.kind = "bool" -> FormatBool(f.val)
      [] f.kind = "float" ->
            IF f.val.nan \/ f.val.milli # 0 THEN FormatFloat(f.val) ELSE <<>>
      [] OTHER -> <<>>

RECURSIVE EncodeFields(_, _)
\* the loop of encodeQuery over the fields that are left, values being the
\* url.Values built so far: the whole tag is the key
EncodeFields(fields, values) ==
    IF fields = <<>> THEN values
    ELSE LET f == Head(fields) IN
        IF f.tag = "" \/ f.tag = "-" THEN EncodeFields(Tail(fields), values)
        ELSE IF f.kind = "ptr" /\ f.val = Nil THEN EncodeFields(Tail(fields), values)
        ELSE EncodeFields(Tail(fields),
                          QueryAddIf(FieldValue(f) # <<>>, values, f.tag, FieldValue(f)))

\* encodeQuery(v), v being nil or a pointer to a struct, the struct being the
\* sequence of its fields in the order of their declaration
encodeQuery(v) == IF v = Nil THEN EmptyQuery ELSE EncodeFields(v[1], EmptyQuery)

\* the fields of a ListTokensRequest with their url tags
ListTokensFields(r) ==
    <<[tag |-> "customer_id,omitempty", kind |-> "string", val |-> r.CustomerID],
      [tag |-> "limit,omitempty", kind |-> "int", val |-> r.Limit],
      [tag |-> "offset,omitempty", kind |-> "int", val |-> r.Offset]>>

\* the query ListTokens gets from encodeQuery(req)
ListTokensQuery(req) ==
    encodeQuery(IF req = Nil THEN Nil ELSE <<ListTokensFields(req[1])>>)

\* the query ListTransactions builds
ListTransactionsQuery(req) ==
    IF req = Nil THEN EmptyQuery
    ELSE LET r == req[1]
             q1 == QueryAddIf(r.MerchantID # <<>>, EmptyQuery, "merchant_id", r.MerchantID)
             q2 == QueryAddIf(r.Status # <<>>, q1, "status", r.Status)
             q3 == QueryAddIf(r.Type # <<>>, q2, "type", r.Type)
             q4 == QueryAddIf(r.StartDate # <<>>, q3, "start_date", r.StartDate)
             q5 == QueryAddIf(r.EndDate # <<>>, q4, "end_date", r.EndDate)
             q6 == QueryAddIf(r.Reference # <<>>, q5, "reference", r.Reference)
             q7 == QueryAddIf(r.MinAmount # <<>>, q6, "min_amount", r.MinAmount)
             q8 == QueryAddIf(r.MaxAmount # <<>>, q7, "max_amount", r.MaxAmount)
             q9 == QueryAddIf(r.Currency # <<>>, q8, "currency", r.Currency)
             q10 == QueryAddIf(r.Limit > 0, q9, "limit", Itoa(r.Limit))
             q11 == QueryAddIf(r.Offset > 0, q10, "offset", Itoa(r.Offset))
             q12 == QueryAddIf(r.SortBy # <<>>, q11, "sort_by", r.SortBy)
         IN  QueryAddIf(r.SortOrder # <<>>, q12, "sort_order", r.SortOrder)

\* the keys of the facades in the order sort.Strings gives them: by their bytes
SortedKeys ==
    <<"currency", "customer_id,omitempty", "end_date", "limit", "limit,omitempty",
      "max_amount", "merchant_id", "min_amount", "offset", "offset,omitempty", "q",
      "reference", "sort_by", "sort_order", "start_date", "status", "type">>

\* the keys of the facades in the order of the fields they are declared on
DeclaredKeys ==
    <<"q", "customer_id,omitempty", "merchant_id", "status", "type", "start_date",
      "end_date", "reference", "min_amount", "max_amount", "currency", "limit",
      "limit,omitempty", "offset", "offset,omitempty", "sort_by", "sort_order">>

\* url.QueryEscape of a key
QueryEscapeKey(k) ==
    CASE k = "customer_id,omitempty" -> "customer_id%2Comitempty"
      [] k = "limit,omitempty" -> "limit%2Comitempty"
      [] k = "offset,omitempty" -> "offset%2Comitempty"
      [] OTHER -> k

RECURSIVE QueryEscape(_)
\* url.QueryEscape of a value: a space becomes "+", a character that is reserved
\* its percent-encoding, letters and digits stay
QueryEscape(v) ==
    IF v = <<>> THEN <<>>
    ELSE (CASE Head(v) = " " -> <<"+">>
            [] Head(v) = "," -> <<"%", "2", "C">>
            [] Head(v) = "&" -> <<"%", "2", "6">>
            [] Head(v) = "=" -> <<"%", "3", "D">>
            [] OTHER -> <<Head(v)>>) \o QueryEscape(Tail(v))

\* the "key=value" items of one key, value after value
EncodeKey(q, k) ==
    [j \in 1..Len(q[k]) |->
        [key |-> k, escaped |-> QueryEscapeKey(k), value |-> QueryEscape(q[k][j])]]

RECURSIVE EncodeOver(_, _, _)
\* the items of the keys of q, taken in the order of keys from its i-th on
EncodeOver(keys, q, i) ==
    IF i > Len(keys) THEN <<>>
    ELSE (IF keys[i] \in DOMAIN q THEN EncodeKey(q, keys[i]) ELSE <<>>)
            \o EncodeOver(keys, q, i + 1)

\* the encoding that would keep the order of declaration
Encode_DeclarationOrder(q) == EncodeOver(DeclaredKeys, q, 1)

\* url.Values.Encode(): the items "key=value" of the query string, sorted by key
Encode(q) == EncodeOver(SortedKeys, q, 1)

(***************************************************************************)
(* encoding/json as doRequest uses it on the body of a request.  A JSON    *)
(* value is [kind, val]; a body is [kind, fields] with kind "none" (no     *)
(* body), "null" (the JSON null) or "object", whose fields are the keys    *)
(* json.Marshal emits.  The tags are those of the struct declarations, for *)
(* the fields the records of the model have; the other fields of the       *)
(* structs are all omitempty and zero.                                     *)
(***************************************************************************)
Tag(name, key, omitempty, kind) ==
    [name |-> name, key |-> key, omitempty |-> omitempty, kind |-> kind]

PaymentRequestTags ==
    <<Tag("Amount", "amount", FALSE, "float"),
      Tag("Currency", "currency", FALSE, "string"),
      Tag("MerchantID", "merchant_id", FALSE, "string"),
      Tag("CardToken", "card_token", TRUE, "string"),
      Tag("CardDetails", "card_details", TRUE, "*struct")>>

TransactionRequestTags ==
    PaymentRequestTags \o
    <<Tag("CaptureMode", "capture_mode", TRUE, "string"),
      Tag("CVVCheck", "cvv_check", TRUE, "bool"),
      Tag("AVSCheck", "avs_check", TRUE, "bool")>>

TokenRequestTags ==
    <<Tag("CardDetails", "card_details", FALSE, "*struct"),
      Tag("CustomerID", "customer_id", TRUE, "string"),
      Tag("Description", "description", TRUE, "string"),
      Tag("SingleUse", "single_use", TRUE, "bool")>>

CaptureTransactionRequestTags ==
    <<Tag("Amount", "amount", TRUE, "*float"),
      Tag("Reference", "reference", TRUE, "string")>>

VoidTransactionRequestTags ==
    <<Tag("Reason", "reason", TRUE, "string"),
      Tag("Reference", "reference", TRUE, "string")>>

RefundTransactionRequestTags ==
    <<Tag("Amount", "amount", FALSE, "float"),
      Tag("Reason", "reason", TRUE, "string")>>

RefundRequestTags ==
    <<Tag("PaymentID", "payment_id", FALSE, "string"),
      Tag("Amount", "amount", FALSE, "float"),
      Tag("Reason", "reason", TRUE, "string")>>

\* the tags of the body each facade posts
TagsOf(op) ==
    CASE op = "CreatePayment" -> PaymentRequestTags
      [] op = "AuthorizeTransaction" -> TransactionRequestTags
      [] op = "CreateToken" -> TokenRequestTags
      [] op = "CaptureTransaction" -> CaptureTransactionRequestTags
      [] op = "VoidTransaction" -> VoidTransactionRequestTags
      [] op = "RefundTransaction" -> RefundTransactionRequestTags
      [] op = "CreateRefund" -> RefundRequestTags
      \* the map CapturePayment fills: an entry is emitted when it is in the map
      [] op = "CapturePayment" -> <<Tag("amount", "amount", FALSE, "float")>>
      [] OTHER -> <<>>

\* isEmptyValue of encoding/json: what omitempty leaves out
IsEmptyValue(kind, v) ==
    CASE kind = "string" -> v = <<>>
      [] kind = "bool" -> v = FALSE
      [] kind = "float" -> ~v.nan /\ v.milli = 0
      [] kind = "*float" -> v = Nil
      [] kind = "*struct" -> v = Nil

JsonNull == [kind |-> "null", val |-> <<>>]

\* the JSON value of a field: a pointer is followed, a nil pointer is null
JsonOf(kind, v) ==
    CASE kind = "*float" -> IF v = Nil THEN JsonNull ELSE [kind |-> "number", val |-> v[1]]
      [] kind = "*struct" -> IF v = Nil THEN JsonNull ELSE [kind |-> "object", val |-> v[1]]
      [] kind = "float" -> [kind |-> "number", val |-> v]
      [] kind = "bool" -> [kind |-> "bool", val |-> v]
      [] kind = "string" -> [kind |-> "string", val |-> v]

\* the fields json.Marshal emits for the record rec of a struct with these tags
MarshalStruct(tags, rec) ==
    LET kept == {i \in 1..Len(tags) :
                    /\ tags[i].name \in DOMAIN rec
                    /\ ~(tags[i].omitempty
                            /\ IsEmptyValue(tags[i].kind, rec[tags[i].name]))}
    IN  [k \in {tags[i].key : i \in kept} |->
            LET i == CHOOSE j \in kept : tags[j].key = k
            IN  JsonOf(tags[i].kind, rec[tags[i].name])]

EmptyObject == [k \in {} |-> JsonNull]

\* the body doRequest puts on the wire.  Get and Delete build a Request without a
\* Body; Post and Put put their argument into the interface Body, and a nil pointer
\* in an interface is not a nil interface: req.Body != nil holds and json.Marshal
\* of the nil pointer is null.
MarshalBody(op, method, body) ==
    IF method \in {"GET", "DELETE"} THEN [kind |-> "none", fields |-> EmptyObject]
    ELSE IF body = Nil THEN [kind |-> "null", fields |-> EmptyObject]
    ELSE [kind |-> "object", fields |-> MarshalStruct(TagsOf(op), body[1])]

\* the request doRequest hands to httpClient.Do: the query string is put on the
\* URL when the query has a key
HttpRequest(method, path, body, query) ==
    [method |-> method, path |-> path, body |-> body, query |-> query,
     rawQuery |-> IF DOMAIN query # {} THEN Encode(query) ELSE <<>>]

\* the query SearchTransactions builds from a request with a query string
SearchQuery(r) ==
    LET q1 == QueryAdd(EmptyQuery, "q", r.Query)
        q2 == QueryAddIf(r.MerchantID # <<>>, q1, "merchant_id", r.MerchantID)
        q3 == QueryAddIf(r.StartDate # <<>>, q2, "start_date", r.StartDate)
        q4 == QueryAddIf(r.EndDate # <<>>, q3, "end_date", r.EndDate)
        q5 == QueryAddIf(r.Limit > 0, q4, "limit", Itoa(r.Limit))
    IN  QueryAddIf(r.Offset > 0, q5, "offset", Itoa(r.Offset))

\* CreatePayment without its call of the validator
PreflightCreatePayment_Skipped(req) == Nil

\* the pre-flight check of each facade: the error that stops the call, or Nil
PreflightCreatePayment(req) ==
    IF ValidatePaymentRequest(req) # Nil
    THEN Errorf("validation failed: ", ValidatePaymentRequest(req), "")
    ELSE Nil

PreflightAuthorizeTransaction(req) ==
    IF ValidateTransactionRequest(req) # Nil
    THEN Errorf("validation failed: ", ValidateTransactionRequest(req), "")
    ELSE Nil

PreflightCreateToken(req) ==
    IF ValidateTokenRequest(req) # Nil
    THEN Errorf("validation failed: ", ValidateTokenRequest(req), "")
    ELSE Nil

PreflightSearchTransactions(req) ==
    IF req = Nil \/ req[1].Query = <<>>
    THEN FmtErrorf("search query is required")
    ELSE Nil

\* the wrapping each facade gives to an error of the client
FailurePrefix(op) ==
    CASE op = "CreatePayment" -> "failed to create payment: "
      [] op = "AuthorizeTransaction" -> "failed to authorize transaction: "
      [] op = "CreateToken" -> "failed to create token: "
      [] op = "SearchTransactions" -> "failed to search transactions: "
      [] op = "ListTransactions" -> "failed to list transactions: "
      [] op = "ListTokens" -> "failed to list tokens: "
      [] op = "CaptureTransaction" -> "failed to capture transaction: "
      [] op = "VoidTransaction" -> "failed to void transaction: "
      [] op = "RefundTransaction" -> "failed to refund transaction: "
      [] op = "CreateRefund" -> "failed to create refund: "
      [] op = "CapturePayment" -> "failed to capture payment: "
      [] op = "DeleteToken" -> "failed to delete token: "

\* the facade returns err without having reached httpClient.Do
ReturnEarly(op, req, err) ==
    /\ pc' = "returned"
    /\ call' = [op |-> op, req |-> req]
    /\ result' = err
    /\ UNCHANGED <<sent, resp, ret, mem, verdicts, ctx, bodyState, cfg, clients>>

\* the facade reaches httpClient.Do with the request h, which doRequest sends with
\* the JSON of its body, and blocks in it
Issue(op, req, h) ==
    /\ pc' = "inflight"
    /\ call' = [op |-> op, req |-> req]
    /\ sent' = Append(sent, [method |-> h.method, path |-> h.path, body |-> h.body,
                              query |-> h.query, rawQuery |-> h.rawQuery,
                              json |-> MarshalBody(op, h.method, h.body)])
    /\ UNCHANGED <<resp, result, ret, mem, verdicts, ctx, bodyState, cfg,
                   clients>>

\* a facade that posts its request record as the JSON body
PostFacade(op, req, preflight, path) ==
    IF preflight # Nil THEN ReturnEarly(op, req, preflight)
    ELSE IF DoRequestMarshalError(req) # Nil
    THEN ReturnEarly(op, req, Errorf(FailurePrefix(op), DoRequestMarshalError(req), ""))
    ELSE Issue(op, req, HttpRequest("POST", path, req, EmptyQuery))

\* the requests the facades are called with
GoodCard ==
    [Number |-> Digits(16), ExpiryMonth |-> 12, ExpiryYear |-> 2099,
     CVV |-> Repeat("1", 3), HolderName |-> <<"J", "o", "e">>]

FacadeCards == {GoodCard, [GoodCard EXCEPT !.CVV = Repeat("1", 2)]}

FacadePaymentRequests ==
    [Amount : {Float(0), Float(1), NaN},
     Currency : {Str3("U", "S", "D"), <<"U", "S">>},
     MerchantID : {<<>>, <<"m", "1">>},
     CardToken : CardTokens, CardDetails : Pointers(FacadeCards)]

FacadeTransactionRequests ==
    [Amount : {Float(0), Float(1)},
     Currency : {Str3("U", "S", "D"), <<"U", "S">>},
     MerchantID : {<<>>, <<"m", "1">>},
     CardToken : CardTokens, CardDetails : Pointers(FacadeCards),
     CaptureMode : {<<>>, <<"a", "u", "t", "o">>,
                    <<"i", "n", "v", "a", "l", "i", "d">>},
     CVVCheck : BOOLEAN, AVSCheck : BOOLEAN]

FacadeTokenRequests ==
    [CardDetails : Pointers(FacadeCards), CustomerID : CustomerIDs,
     Description : {<<>>}, SingleUse : BOOLEAN]

SearchTransactionsRequests ==
    [Query : {<<>>, <<"q">>}, MerchantID : {<<>>, <<"m", "1">>},
     StartDate : {<<>>, <<"d", "1">>}, EndDate : {<<>>, <<"d", "2">>},
     Limit : {0, 10}, Offset : {0, 5}]

\* the fields of a ListTransactionsRequest, in the order of their declaration
ListTransactionsFieldNames ==
    <<"MerchantID", "Status", "Type", "StartDate", "EndDate", "Reference",
      "MinAmount", "MaxAmount", "Currency", "Limit", "Offset", "SortBy", "SortOrder">>

\* the request whose fields of the set are filled and whose other fields are zero
ListTransactionsRequestWith(set) ==
    LET str(name, v) == IF name \in set THEN v ELSE <<>>
        int(name, n) == IF name \in set THEN n ELSE 0
    IN  [MerchantID |-> str("MerchantID", <<"m", "1">>),
         Status |-> str("Status", <<"o", "k">>),
         Type |-> str("Type", <<"t">>),
         StartDate |-> str("StartDate", <<"d", "1">>),
         EndDate |-> str("EndDate", <<"d", "2">>),
         Reference |-> str("Reference", <<"r", " ", "1">>),
         MinAmount |-> str("MinAmount", <<"1">>),
         MaxAmount |-> str("MaxAmount", <<"9">>),
         Currency |-> str("Currency", Str3("U", "S", "D")),
         Limit |-> int("Limit", 10),
         Offset |-> int("Offset", 5),
         SortBy |-> str("SortBy", <<"a">>),
         SortOrder |-> str("SortOrder", <<"d">>)]

\* the list requests with at most MaxFilters fields filled
ListTransactionsRequests ==
    {ListTransactionsRequestWith(set) :
        set \in {x \in SUBSET {ListTransactionsFieldNames[i] : i \in 1..13} :
                    Cardinality(x) <= MaxFilters}}

ListTokensRequests ==
    [CustomerID : CustomerIDs, Limit : {0 - 1, 0, 10}, Offset : {0, 5}]

CreatePayment ==
    /\ pc = "idle"
    /\ \E req \in Pointers(FacadePaymentRequests) :
        PostFacade("CreatePayment", req, PreflightCreatePayment(req), "/payments")

AuthorizeTransaction ==
    /\ pc = "idle"
    /\ \E req \in Pointers(FacadeTransactionRequests) :
        PostFacade("AuthorizeTransaction", req, PreflightAuthorizeTransaction(req),
                   "/transactions/authorize")

CreateToken ==
    /\ pc = "idle"
    /\ \E req \in Pointers(FacadeTokenRequests) :
        PostFacade("CreateToken", req, PreflightCreateToken(req), "/tokens")

SearchTransactions ==
    /\ pc = "idle"
    /\ \E req \in Pointers(SearchTransactionsRequests) :
        IF PreflightSearchTransactions(req) # Nil
        THEN ReturnEarly("SearchTransactions", req, PreflightSearchTransactions(req))
        ELSE Issue("SearchTransactions", req,
                   HttpRequest("GET", "/transactions/search", Nil, SearchQuery(req[1])))

ListTransactions ==
    /\ pc = "idle"
    /\ \E req \in Pointers(ListTransactionsRequests) :
        Issue("ListTransactions", req,
              HttpRequest("GET", "/transactions", Nil, ListTransactionsQuery(req)))

ListTokens ==
    /\ pc = "idle"
    /\ \E req \in Pointers(ListTokensRequests) :
        Issue("ListTokens", req, HttpRequest("GET", "/tokens", Nil, ListTokensQuery(req)))

\* a nil request is replaced by the empty record before it is posted
CaptureTransaction ==
    /\ pc = "idle"
    /\ \E req \in Pointers([Amount : Pointers({Float(0), Float(1)}),
                          Reference : {<<>>, <<"r">>}]) :
        LET body == IF req = Nil THEN <<[Amount |-> Nil, Reference |-> <<>>]>> ELSE req
        IN  Issue("CaptureTransaction", req,
                  HttpRequest("POST", "/transactions/t1/capture", body, EmptyQuery))

VoidTransaction ==
    /\ pc = "idle"
    /\ \E req \in Pointers([Reason : {<<>>, <<"r">>}, Reference : {<<>>}]) :
        LET body == IF req = Nil THEN <<[Reason |-> <<>>, Reference |-> <<>>]>> ELSE req
        IN  Issue("VoidTransaction", req,
                  HttpRequest("POST", "/transactions/t1/void", body, EmptyQuery))

RefundTransaction ==
    /\ pc = "idle"
    /\ \E req \in Pointers([Amount : {Float(0), Float(1)}, Reason : {<<>>, <<"r">>}]) :
        PostFacade("RefundTransaction", req,
                   IF req = Nil THEN FmtErrorf("refund request is required") ELSE Nil,
                   "/transactions/t1/refund")

\* CreateRefund posts the pointer it is given, without a look at it
CreateRefund ==
    /\ pc = "idle"
    /\ \E req \in Pointers([PaymentID : {<<>>, <<"p", "1">>},
                          Amount : {Float(0), Float(1)}, Reason : {<<>>}]) :
        PostFacade("CreateRefund", req, Nil, "/refunds")

\* CapturePayment posts a map that holds the amount when one is given
CapturePayment ==
    /\ pc = "idle"
    /\ \E amount \in Pointers({Float(0), Float(1)}) :
        LET captureReq == IF amount = Nil THEN EmptyObject ELSE [amount |-> amount[1]]
        IN  Issue("CapturePayment", amount,
                  HttpRequest("POST", "/payments/p1/capture", <<captureReq>>, EmptyQuery))

DeleteToken ==
    /\ pc = "idle"
    /\ \E tokenID \in {"", "t1"} :
        Issue("DeleteToken", <<[tokenID |-> tokenID]>>,
              HttpRequest("DELETE", "/tokens/" \o tokenID, Nil, EmptyQuery))

\* what the facade returns once doRequest has returned d: the error of the client
\* wrapped, or the error of reading or decoding the body, or nil; DeleteToken
\* does not read the body
FacadeFinish(op, d) ==
    IF d.err # Nil THEN Errorf(FailurePrefix(op), d.err, "")
    ELSE IF op = "DeleteToken" THEN Nil
    ELSE IF d.resp[1].body = "unreadable"
    THEN Errorf("failed to read response: ",
                <<[id |-> "io.error", text |-> "unexpected EOF"]>>, "")
    ELSE IF d.resp[1].body = "garbage"
    THEN Errorf("failed to unmarshal response: ",
                <<[id |-> "*json.SyntaxError", text |-> "invalid character"]>>, "")
    ELSE Nil

\* the body of the response once the invocation has returned: none when Do
\* failed; closed by doRequest (status >= 400) or by the defer of the facade;
\* DeleteToken drops the response it gets and closes nothing
BodyAfter(op, o) ==
    IF o.kind = "error" THEN "none"
    ELSE IF o.status >= 400 THEN "closed"
    ELSE IF op = "DeleteToken" THEN "open"
    ELSE "closed"

\* the context of the caller is cancelled, or its deadline passes, while the
\* invocation is blocked in httpClient.Do
CtxDone ==
    /\ pc = "inflight"
    /\ ctx = "live"
    /\ ctx' \in {"canceled", "deadline"}
    /\ UNCHANGED <<pc, call, sent, resp, result, ret, mem, verdicts, bodyState, cfg,
                   clients>>

\* the client that would send the request once more after a failure of the
\* transport or an answer of status 500 and more
HttpRespond_RetryOnce ==
    /\ pc = "inflight"
    /\ \E o \in DoOutcomes(ctx) :
        IF Len(sent) < 2 /\ (o.kind = "error" \/ o.status >= 500)
        THEN /\ sent' = Append(sent, sent[1])
             /\ UNCHANGED <<pc, resp, result, bodyState>>
        ELSE /\ resp' = <<o>>
             /\ result' = FacadeFinish(call.op, DoRequestFinish(o))
             /\ bodyState' = BodyAfter(call.op, o)
             /\ pc' = "returned"
             /\ sent' = sent
    /\ UNCHANGED <<call, ret, mem, verdicts, ctx, cfg, clients>>

\* httpClient.Do returns, and the invocation runs on to its return
HttpRespond ==
    /\ pc = "inflight"
    /\ \E o \in DoOutcomes(ctx) :
        /\ resp' = <<o>>
        /\ result' = FacadeFinish(call.op, DoRequestFinish(o))
        /\ bodyState' = BodyAfter(call.op, o)
    /\ pc' = "returned"
    /\ UNCHANGED <<call, sent, ret, mem, verdicts, ctx, cfg, clients>>

Next ==
    \/ CreatePayment
    \/ AuthorizeTransaction
    \/ CreateToken
    \/ SearchTransactions
    \/ ListTransactions
    \/ ListTokens
    \/ CaptureTransaction
    \/ VoidTransaction
    \/ RefundTransaction
    \/ CreateRefund
    \/ CapturePayment
    \/ DeleteToken
    \/ CtxDone
    \/ HttpRespond
    \/ Return

Spec == Init /\ [][Next]_vars

\* httpClient.Do is a blocking call that returns: with an answer, with an error of
\* the network, or with the error of the context once that is done
SpecLive == Spec /\ WF_vars(HttpRespond)

(***************************************************************************)
(* client.go: NewClient, and sdk.go: NewSDK, which builds its client with  *)
(* NewClient.  A *Config is Nil or <<c>>, c the Config it points to; an    *)
(* *http.Client is <<[id, Timeout]>>, where id tells one http.Client from  *)
(* another: 0 for the one of the caller, k for the one the k-th call made. *)
(* Durations are in seconds.                                               *)
(***************************************************************************)
DefaultBaseURL ==
    <<"h", "t", "t", "p", "s", ":", "/", "/", "g", "a", "t", "e",
      "w", "a", "y", "-", "n", "a", ".", "a", "m", "e", "r", "i",
      "c", "a", "n", "e", "x", "p", "r", "e", "s", "s", ".", "c",
      "o", "m", "/", "a", "p", "i">>

DefaultTimeout == 30

\* strings.TrimSuffix
TrimSuffix(s, suffix) ==
    IF Len(s) >= Len(suffix) /\ SubSeq(s, Len(s) - Len(suffix) + 1, Len(s)) = suffix
    THEN SubSeq(s, 1, Len(s) - Len(suffix))
    ELSE s

\* Config{}
ZeroConfig ==
    [BaseURL |-> <<>>, APIKey |-> <<>>, SecretKey |-> <<>>, Timeout |-> 0,
     HTTPClient |-> Nil]

\* the Config NewClient works on once it has filled in its defaults; fresh is the
\* identity of the http.Client it makes when there is none
WithDefaults(c, fresh) ==
    LET c1 == IF c.BaseURL = <<>> THEN [c EXCEPT !.BaseURL = DefaultBaseURL] ELSE c
        c2 == IF c1.Timeout = 0 THEN [c1 EXCEPT !.Timeout = DefaultTimeout] ELSE c1
    IN  IF c2.HTTPClient = Nil
        THEN [c2 EXCEPT !.HTTPClient = <<[id |-> fresh, Timeout |-> c2.Timeout]>>]
        ELSE c2

\* the NewClient that would leave the timeout of the http.Client it makes at zero
NewClient_NoTimeout(config, fresh) ==
    LET c == WithDefaults(IF config = Nil THEN ZeroConfig ELSE config[1], fresh)
        made == c.HTTPClient[1].id = fresh /\ fresh # 0
    IN  [client |-> [baseURL |-> TrimSuffix(c.BaseURL, <<"/">>),
                     httpClient |-> IF made THEN <<[id |-> fresh, Timeout |-> 0]>>
                                    ELSE c.HTTPClient,
                     apiKey |-> c.APIKey, secretKey |-> c.SecretKey,
                     userAgent |-> <<"A", "m", "e", "x", "S", "D", "K", "-", "G", "o", "/",
                                    "1", ".", "0", ".", "0">>],
         config |-> IF config = Nil THEN Nil ELSE <<c>>]

\* NewClient(config): the client it returns, and what config points to afterwards.
\* The defaults are written through the pointer of the caller; for a nil config
\* they are written to a Config of its own.
NewClient(config, fresh) ==
    LET c == WithDefaults(IF config = Nil THEN ZeroConfig ELSE config[1], fresh)
    IN  [client |-> [baseURL |-> TrimSuffix(c.BaseURL, <<"/">>),
                     httpClient |-> c.HTTPClient,
                     apiKey |-> c.APIKey, secretKey |-> c.SecretKey,
                     userAgent |-> <<"A", "m", "e", "x", "S", "D", "K", "-", "G", "o", "/",
                                    "1", ".", "0", ".", "0">>],
         config |-> IF config = Nil THEN Nil ELSE <<c>>]

\* the Configs a caller makes
Configs ==
    [BaseURL : {<<>>, <<"h", ":", "/", "/", "a">>, <<"h", ":", "/", "/", "a", "/">>},
     APIKey : {<<>>, <<"k">>},
     SecretKey : {<<"s">>},
     Timeout : {0, 5, 60},
     HTTPClient : {Nil, <<[id |-> 0, Timeout |-> 0]>>, <<[id |-> 0, Timeout |-> 10]>>}]

\* the caller makes the Config it is going to build its clients from
NewConfig ==
    /\ pc = "idle"
    /\ cfg = Nil
    /\ clients = <<>>
    /\ \E c \in Configs :
        /\ cfg' = <<c>>
        /\ call' = [op |-> "NewConfig", req |-> <<c>>]
    /\ UNCHANGED <<pc, sent, resp, result, ret, mem, verdicts, ctx, bodyState, clients>>

\* the caller changes the Timeout of its Config, and nothing else
SetTimeout ==
    /\ pc = "idle"
    /\ cfg # Nil
    /\ Len(clients) < MaxClients
    /\ \E t \in {0, 5, 60} \ {cfg[1].Timeout} :
        /\ cfg' = <<[cfg[1] EXCEPT !.Timeout = t]>>
        /\ call' = [op |-> "SetTimeout", req |-> cfg']
    /\ UNCHANGED <<pc, sent, resp, result, ret, mem, verdicts, ctx, bodyState, clients>>

\* a call of NewClient on the Config of the caller; the client is kept with the
\* Config as the caller had it at the call
CallNewClient ==
    /\ pc = "idle"
    /\ Len(clients) < MaxClients
    /\ LET r == NewClient(cfg, Len(clients) + 1) IN
        /\ clients' = Append(clients, [client |-> r.client, config |-> cfg])
        /\ cfg' = r.config
    /\ call' = [op |-> "NewClient", req |-> cfg]
    /\ UNCHANGED <<pc, sent, resp, result, ret, mem, verdicts, ctx, bodyState>>

\* NewSDK builds its client with NewClient(config)
CallNewSDK ==
    /\ pc = "idle"
    /\ Len(clients) < MaxClients
    /\ LET r == NewClient(cfg, Len(clients) + 1) IN
        /\ clients' = Append(clients, [client |-> r.client, config |-> cfg])
        /\ cfg' = r.config
    /\ call' = [op |-> "NewSDK", req |-> cfg]
    /\ UNCHANGED <<pc, sent, resp, result, ret, mem, verdicts, ctx, bodyState>>

NextClient ==
    \/ NewConfig
    \/ SetTimeout
    \/ CallNewClient
    \/ CallNewSDK

SpecClient == Init /\ [][NextClient]_vars

(***************************************************************************)
(* validation.go: FormatAmount, float64(int(amount*100)) / 100.  An amount *)
(* is the float64 nearest to a decimal of thousandths n/1000; the float64  *)
(* arithmetic is followed exactly: 53 bits of mantissa, round to nearest,  *)
(* ties to even.  For x = c/100 in [2^e, 2^(e+1)) the float64 of x is      *)
(* m / 2^k with k = 52 - e and m the integer nearest to c * 2^k / 100, so  *)
(* that x' * 100 = c + d / 2^k with d = 100 * m - c * 2^k, a number        *)
(* between -50 and 50 that is known from c * 2^k modulo 100.  The product  *)
(* is then rounded to the float64 grid around c, whose step is 64 / 2^k or *)
(* 128 / 2^k: it falls below c when -d exceeds half the step below c.      *)
(***************************************************************************)
RECURSIVE PowMod(_, _)
\* 2^k modulo m
PowMod(k, m) == IF k = 0 THEN 1 % m ELSE (2 * PowMod(k - 1, m)) % m

RECURSIVE Log2Floor(_, _)
\* the exponent e of the positive fraction n/d: 2^e <= n/d < 2^(e+1)
Log2Floor(n, d) ==
    IF n >= 2 * d THEN Log2Floor(n, 2 * d) + 1
    ELSE IF n < d THEN Log2Floor(2 * n, d) - 1
    ELSE 0

\* 100 * m - c * 2^k for the float64 m / 2^k of c/100
RoundingError(c) ==
    LET k == 52 - Log2Floor(c, 100)
        r == ((c % 100) * PowMod(k, 100)) % 100
        q == ((((c % 200) * PowMod(k, 200)) % 200) - r) \div 100
    IN  IF r < 50 THEN 0 - r
        ELSE IF r > 50 THEN 100 - r
        ELSE IF q % 2 = 0 THEN 0 - 50 ELSE 50

\* int(amount * 100) for the amount of n thousandths, n >= 0
TimesHundredTruncated(n) ==
    IF n % 10 # 0 \/ n = 0 THEN n \div 10
    ELSE LET c == n \div 10
             \* half the step of the float64 grid below c, in units of 1 / 2^k: the
             \* step is halved below a power of two, and where c is in the lower
             \* part of its binade of c/100
             half == IF \/ Log2Floor(c, 1) - Log2Floor(c, 100) = 6
                        \/ \E j \in 0..30 : c = 2^j
                     THEN 32 ELSE 64
         IN  IF 0 - RoundingError(c) > half THEN c - 1 ELSE c

\* FormatAmount(amount) for a finite amount: the conversion to int truncates toward
\* zero, and float64(k) / 100 is the float64 nearest to k/100
FormatAmount(amount) ==
    IF amount.milli < 0 THEN Float(0 - (TimesHundredTruncated(0 - amount.milli) * 10))
    ELSE Float(TimesHundredTruncated(amount.milli) * 10)

\* the amounts FormatAmount is given: every amount of whole cents up to MaxCents,
\* the amounts of the tests, amounts with a third decimal, and their negatives
FormatAmountInputs ==
    LET positive == {10 * c : c \in 0..MaxCents}
                    \cup {100000, 100250, 100123, 100996, 1999, 5, 1005, 290001}
    IN  {Float(n) : n \in positive} \cup {Float(0 - n) : n \in positive}

CallFormatAmount ==
    /\ pc = "idle"
    /\ \E amount \in FormatAmountInputs :
        /\ pc' = "returned"
        /\ call' = [op |-> "FormatAmount", req |-> <<amount>>]
        /\ ret' = <<FormatAmount(amount)>>
        /\ UNCHANGED <<sent, resp, result, mem, verdicts, ctx, bodyState, cfg, clients>>

NextAmount ==
    \/ CallFormatAmount
    \/ Return

SpecAmount == Init /\ [][NextAmount]_vars

(***************************************************************************)
(* encodeQuery called on its own, on structs of up to MaxFields fields.    *)
(***************************************************************************)
\* the fields the structs are made of: strings, integers, booleans, floats and
\* pointers, with a key, with a key that has an option, with "-" and without tag
QueryFields ==
    [tag : {"q"}, kind : {"string"}, val : {<<>>, <<"a", " ", "b">>}]
    \cup [tag : {"limit", "limit,omitempty"}, kind : {"int"}, val : {0 - 1, 0, 10}]
    \cup [tag : {"active", "-", ""}, kind : {"bool"}, val : BOOLEAN]
    \cup [tag : {"min"}, kind : {"float"}, val : {Float(0), Float(1500), Float(0 - 20), NaN}]
    \cup [tag : {"active"}, kind : {"ptr"}, val : {Nil, <<TRUE>>}]

\* the structs of n fields
StructsOf(n) == [1..n -> QueryFields]

CallEncodeQuery ==
    /\ pc = "idle"
    /\ \E v \in Pointers(UNION {StructsOf(n) : n \in 0..MaxFields}) :
        /\ pc' = "returned"
        /\ call' = [op |-> "encodeQuery", req |-> v]
        /\ ret' = <<encodeQuery(v)>>
        /\ result' = Nil
        /\ UNCHANGED <<sent, resp, mem, verdicts, ctx, bodyState, cfg, clients>>

NextEncode ==
    \/ CallEncodeQuery
    \/ Return

SpecEncode == Init /\ [][NextEncode]_vars

(***************************************************************************)
(* The vocabulary of the claims: what a request violates, stated on the    *)
(* request itself, and which check a returned error belongs to.            *)
(***************************************************************************)
Returned(op) == pc = "returned" /\ call.op = op

\* blank after trimming: nothing but white space
Blank(s) == \A i \in 1..Len(s) : IsSpace(s[i])

AmountLeqZero(r) == ~r.Amount.nan /\ r.Amount.milli <= 0
AmountPositive(r) == ~r.Amount.nan /\ r.Amount.milli > 0

\* the shape of a card number: 13 to 19 decimal digits once the spaces are removed
NumberShapeOK(n) ==
    LET t == SelectSeq(n, LAMBDA ch : ch # " ")
    IN  Len(t) \in 13..19 /\ \A i \in 1..Len(t) : t[i] \in Digit

ExpiryOK(c) == c.ExpiryMonth \in 1..12 /\ c.ExpiryYear \in 2020..2099

CardOK(c) ==
    /\ NumberShapeOK(c.Number)
    /\ ExpiryOK(c)
    /\ GoLen(c.CVV) \in {3, 4}
    /\ ~Blank(c.HolderName)

\* the kind of the first card check that c fails
ExpectedCardKind(c) ==
    IF ~NumberShapeOK(c.Number) THEN "InvalidCardNumber"
    ELSE IF ~ExpiryOK(c) THEN "InvalidExpiryDate"
    ELSE IF GoLen(c.CVV) \notin {3, 4} THEN "InvalidCVV"
    ELSE IF Blank(c.HolderName) THEN "EmptyHolderName"
    ELSE "Pass"

\* the kind of card failure that can be found in the chain of err
CardKindIn(err) ==
    IF ErrorsIs(err, ErrInvalidCardNumber) THEN "InvalidCardNumber"
    ELSE IF ErrorsIs(err, ErrInvalidExpiryDate) THEN "InvalidExpiryDate"
    ELSE IF ErrorsIs(err, ErrInvalidCVV) THEN "InvalidCVV"
    ELSE IF \E i \in 1..Len(err) : <<err[i]>> = ErrorsNew("holder name cannot be empty")
        THEN "EmptyHolderName"
    ELSE "Pass"

\* the i-th check of the sequence of ValidatePaymentRequest is violated by req
PaymentCheckViolated(req, i) ==
    IF req = Nil THEN i = 1
    ELSE LET r == req[1] IN
        CASE i = 1 -> FALSE
          [] i = 2 -> AmountLeqZero(r)
          [] i = 3 -> r.Currency = <<>> \/ GoLen(r.Currency) # 3
          [] i = 4 -> Blank(r.MerchantID)
          [] i = 5 -> r.CardToken = <<>> /\ r.CardDetails = Nil
          [] i = 6 -> r.CardDetails # Nil /\ ~CardOK(r.CardDetails[1])

ViolatedChecks(req) == {i \in 1..6 : PaymentCheckViolated(req, i)}

\* the earliest violated check, 0 when the request violates none
FirstViolated(req) ==
    IF ViolatedChecks(req) = {} THEN 0
    ELSE CHOOSE i \in ViolatedChecks(req) : \A j \in ViolatedChecks(req) : i <= j

\* err is tagged "invalid card details" in front of the text of what it wraps
TaggedCardDetails(err) ==
    /\ Len(err) >= 2
    /\ err[1].text = "invalid card details: " \o err[2].text

\* the check of the sequence that the error err reports, 0 for no error
ReportedCheck(err) ==
    IF err = Nil THEN 0
    ELSE IF err = ErrorsNew("payment request cannot be nil") THEN 1
    ELSE IF ErrorsIs(err, ErrInvalidAmount) THEN 2
    ELSE IF ErrorsIs(err, ErrInvalidCurrency) THEN 3
    ELSE IF err = ErrorsNew("merchant ID cannot be empty") THEN 4
    ELSE IF err = ErrorsNew("either card token or card details must be provided") THEN 5
    ELSE IF TaggedCardDetails(err) THEN 6
    ELSE 7

\* a capture mode that is empty, "auto" or "manual"
CaptureModeAllowed(r) ==
    r.CaptureMode \in {<<>>, <<"a", "u", "t", "o">>, <<"m", "a", "n", "u", "a", "l">>}

\* the facade call fails its pre-flight check, stated on the request itself
PreflightFails(c) ==
    CASE c.op = "CreatePayment" -> ViolatedChecks(c.req) # {}
      [] c.op = "AuthorizeTransaction" ->
            ViolatedChecks(c.req) # {}
            \/ (c.req # Nil /\ ~CaptureModeAllowed(c.req[1]))
      [] c.op = "CreateToken" ->
            \/ c.req = Nil
            \/ c.req[1].CardDetails = Nil
            \/ ~CardOK(c.req[1].CardDetails[1])
      [] c.op = "SearchTransactions" -> c.req = Nil \/ c.req[1].Query = <<>>
      [] OTHER -> FALSE

\* err is the error of a pre-flight check
IsValidationFailure(err) ==
    /\ err # Nil
    /\ \/ err = FmtErrorf("search query is required")
       \/ Len(err) >= 2 /\ err[1].text = "validation failed: " \o err[2].text

\* C1: a facade call that fails its pre-flight check (CreatePayment,
\* AuthorizeTransaction and CreateToken with a request their validator rejects,
\* SearchTransactions with a nil request or an empty query) returns the error
\* without any HTTP request of that invocation, before it or after it.
C1_NoRequestOnValidationFailure ==
    /\ PreflightFails(call) =>
        /\ pc = "returned"
        /\ IsValidationFailure(result)
        /\ sent = <<>>
        /\ resp = <<>>
    /\ IsValidationFailure(result) => PreflightFails(call) /\ sent = <<>>

\* a transaction request with a wrong capture mode alone was turned down unsent
C1_Witness ==
    /\ pc = "returned"
    /\ call.op = "AuthorizeTransaction"
    /\ ViolatedChecks(call.req) = {}
    /\ PreflightFails(call)
    /\ IsValidationFailure(result)
    /\ sent = <<>>

\* C2: ValidatePaymentRequest reports the first failing check of the sequence nil
\* request, amount <= 0, currency empty or of length other than 3, merchant id blank,
\* neither card token nor card details, card-details checks: the error returned is
\* the one of the earliest check the request violates, never that of a later one.
C2_FirstFailingCheck ==
    Returned("ValidatePaymentRequest") =>
        ReportedCheck(result) = FirstViolated(call.req)

\* a request violating three checks at once was answered with the earliest of them
C2_Witness ==
    /\ Returned("ValidatePaymentRequest")
    /\ ViolatedChecks(call.req) = {2, 3, 4, 6}
    /\ ReportedCheck(result) = 2

\* a valid payment method: a token and no card details, or card details that are valid
MethodValid(r) ==
    \/ r.CardDetails = Nil /\ r.CardToken # <<>>
    \/ r.CardDetails # Nil /\ CardOK(r.CardDetails[1])

\* a currency, a merchant id that their checks accept
CurrencyValid(r) == GoLen(r.Currency) = 3
MerchantValid(r) == ~Blank(r.MerchantID)

\* C3 as stated: every non-nil payment or transaction request with amount <= 0 yields
\* InvalidAmount whatever its other fields; every one with amount > 0 and a valid
\* currency, merchant id and payment method passes.
C3_AsStated ==
    (Returned("ValidatePaymentRequest") \/ Returned("ValidateTransactionRequest"))
    /\ call.req # Nil =>
        LET r == call.req[1] IN
            /\ AmountLeqZero(r) => result = ErrInvalidAmount
            /\ AmountPositive(r) /\ CurrencyValid(r) /\ MerchantValid(r) /\ MethodValid(r)
                => result = Nil

\* C3 amended: as C3, where a transaction request passes provided its capture mode
\* too is valid (empty, "auto" or "manual").
C3_AmountDecides ==
    (Returned("ValidatePaymentRequest") \/ Returned("ValidateTransactionRequest"))
    /\ call.req # Nil =>
        LET r == call.req[1] IN
            /\ AmountLeqZero(r) => result = ErrInvalidAmount
            /\ (/\ AmountPositive(r) /\ CurrencyValid(r) /\ MerchantValid(r)
                /\ MethodValid(r)
                /\ (call.op = "ValidateTransactionRequest" => CaptureModeAllowed(r)))
                => result = Nil

\* the largest amount passed, in a transaction request with capture mode "manual";
C3_Witness ==
    /\ Returned("ValidateTransactionRequest")
    /\ call.req # Nil
    /\ call.req[1].Amount = Float(MaxAmount)
    /\ call.req[1].CaptureMode = <<"m", "a", "n", "u", "a", "l">>
    /\ call.req[1].CardDetails # Nil
    /\ result = Nil

\* C4: every request with amount > 0 whose currency has a length in characters other
\* than 3 (the empty string included) yields InvalidCurrency, whatever the currency
\* holds; every currency of exactly 3 characters passes the currency check.
C4_CurrencyLengthInCharacters ==
    (Returned("ValidatePaymentRequest") \/ Returned("ValidateTransactionRequest"))
    /\ call.req # Nil =>
        LET r == call.req[1] IN
            AmountPositive(r) =>
                (ErrorsIs(result, ErrInvalidCurrency) <=> Len(r.Currency) # 3)

C6_CardDetailsWrapped ==
    Returned("ValidatePaymentRequest") /\ call.req # Nil =>
        LET r == call.req[1] IN
            ViolatedChecks(call.req) \subseteq {6} /\ r.CardDetails # Nil =>
                IF CardOK(r.CardDetails[1]) THEN result = Nil
                ELSE /\ result # Nil
                     /\ TaggedCardDetails(result)
                     /\ CardKindIn(result) = ExpectedCardKind(r.CardDetails[1])

\* card details with a CVV too short, beside a card token, were rejected as such
C6_Witness ==
    /\ Returned("ValidatePaymentRequest")
    /\ call.req # Nil
    /\ call.req[1].CardToken # <<>>
    /\ call.req[1].CardDetails # Nil
    /\ TaggedCardDetails(result)
    /\ CardKindIn(result) = "InvalidCVV"

\* C7: ValidateCardDetails accepts the card number exactly when, the spaces removed,
\* it consists of decimal digits only and has 13 to 19 of them; otherwise it fails
\* with InvalidCardNumber.
C7_CardNumberShape ==
    Returned("ValidateCardDetails") /\ call.req # Nil =>
        (result = ErrInvalidCardNumber <=> ~NumberShapeOK(call.req[1].Number))

\* "4111 1111 1111 1111" was accepted
C7_Witness ==
    /\ Returned("ValidateCardDetails")
    /\ call.req # Nil
    /\ call.req[1].Number = Grouped(Digits(16))
    /\ result = Nil

\* C8: for a card with a valid number, ValidateCardDetails fails with
\* InvalidExpiryDate exactly when the month is outside 1..12 or the year is outside
\* 2020..2099, bounds included; the verdict depends on the card alone.
C8_ExpiryRange ==
    Returned("ValidateCardDetails") /\ call.req # Nil =>
        LET c == call.req[1] IN
            NumberShapeOK(c.Number) =>
                (ErrorsIs(result, ErrInvalidExpiryDate)
                    <=> (c.ExpiryMonth < 1 \/ c.ExpiryMonth > 12
                         \/ c.ExpiryYear < 2020 \/ c.ExpiryYear > 2099))

\* month 12 of year 2099 was accepted
C8_Witness ==
    /\ Returned("ValidateCardDetails")
    /\ call.req # Nil
    /\ call.req[1].ExpiryMonth = 12
    /\ call.req[1].ExpiryYear = 2099
    /\ result = Nil

\* C9: for a card with a valid number and expiry, ValidateCardDetails fails with
\* InvalidCVV exactly when the CVV does not have 3 or 4 characters; any string of
\* 3 or 4 characters passes, digits or not.
C9_CVVLengthInCharacters ==
    Returned("ValidateCardDetails") /\ call.req # Nil =>
        LET c == call.req[1] IN
            NumberShapeOK(c.Number) /\ ExpiryOK(c) =>
                (result = ErrInvalidCVV <=> Len(c.CVV) \notin {3, 4})

\* C10: for a transaction request that passes the amount, currency, merchant and
\* payment-method checks, ValidateTransactionRequest fails with InvalidCaptureMode
\* exactly when the capture mode is non-empty and neither "auto" nor "manual".
C10_CaptureMode ==
    Returned("ValidateTransactionRequest") /\ call.req # Nil =>
        LET r == call.req[1] IN
            ViolatedChecks(call.req) = {} =>
                IF CaptureModeAllowed(r) THEN result = Nil
                ELSE result = ErrorsNew("capture mode must be 'auto' or 'manual'")

\* the capture mode "AUTO" was rejected
C10_Witness ==
    /\ Returned("ValidateTransactionRequest")
    /\ call.req # Nil
    /\ call.req[1].CaptureMode = <<"A", "U", "T", "O">>
    /\ result = ErrorsNew("capture mode must be 'auto' or 'manual'")

\* the payment request with the amount, currency, merchant id, card token and card
\* details of the transaction request r
AsPaymentRequest(r) ==
    [Amount |-> r.Amount, Currency |-> r.Currency, MerchantID |-> r.MerchantID,
     CardToken |-> r.CardToken, CardDetails |-> r.CardDetails]

\* C11: for every transaction request with an empty capture mode, the verdict of
\* ValidateTransactionRequest (pass, or the failure and its kind) is the verdict of
\* ValidatePaymentRequest on the payment request with the same amount, currency,
\* merchant id, card token and card details.
C11_SameVerdictAsPayment ==
    Returned("ValidateTransactionRequest") /\ call.req # Nil
    /\ call.req[1].CaptureMode = <<>> =>
        /\ result = ValidatePaymentRequest(<<AsPaymentRequest(call.req[1])>>)
        /\ ReportedCheck(result) = FirstViolated(<<AsPaymentRequest(call.req[1])>>)

\* a transaction request without capture mode, violating the currency and the
\* merchant checks and carrying a card with a short CVV, failed on the currency
C11_Witness ==
    /\ Returned("ValidateTransactionRequest")
    /\ call.req # Nil
    /\ call.req[1].CaptureMode = <<>>
    /\ ViolatedChecks(<<AsPaymentRequest(call.req[1])>>) = {3, 4, 6}
    /\ ReportedCheck(result) = 3

\* C12: ValidateTokenRequest rejects a nil request, rejects a request without card
\* details with MissingCardDetails, and otherwise returns exactly the verdict of
\* ValidateCardDetails on the card; CustomerID, Description and SingleUse never
\* influence the verdict.
C12_TokenVerdictIsCardVerdict ==
    Returned("ValidateTokenRequest") =>
        IF call.req = Nil THEN result = ErrorsNew("token request cannot be nil")
        ELSE IF call.req[1].CardDetails = Nil
            THEN result = ErrorsNew("card details are required for token creation")
        ELSE /\ result = ValidateCardDetails(call.req[1].CardDetails)
             /\ CardKindIn(result) = ExpectedCardKind(call.req[1].CardDetails[1])
             /\ result = Nil <=> CardOK(call.req[1].CardDetails[1])

\* a single-use request without customer id and description passed on its card alone
C12_Witness ==
    /\ Returned("ValidateTokenRequest")
    /\ call.req # Nil
    /\ call.req[1].CardDetails # Nil
    /\ call.req[1].CustomerID = <<>>
    /\ call.req[1].Description = <<>>
    /\ call.req[1].SingleUse
    /\ result = Nil

\* the lower-case letter of a letter, k for the Kelvin sign and s for the long s
\* (the case folding of Unicode); any other character as it is
CaseFolded(c) ==
    IF c = "U+212A" THEN "k"
    ELSE IF c = "U+017F" THEN "s"
    ELSE IF c = "U+00C9" THEN "U+00E9"
    ELSE IF \E i \in 1..26 : UpperLetters[i] = c
        THEN LowerLetters[CHOOSE i \in 1..26 : UpperLetters[i] = c]
    ELSE c

\* the twenty codes of the claim, folded
ClaimedCodes ==
    {"usd", "eur", "gbp", "cad", "aud", "jpy", "chf", "sgd", "hkd", "sek",
     "nok", "dkk", "pln", "czk", "huf", "ils", "mxn", "brl", "ars", "clp"}

\* the three characters of s, folded, as one string
FoldedCode(s) == CaseFolded(s[1]) \o CaseFolded(s[2]) \o CaseFolded(s[3])

\* C13: IsSupportedCurrency(c) is true exactly when c, compared case-insensitively,
\* is one of the 20 codes USD, EUR, GBP, CAD, AUD, JPY, CHF, SGD, HKD, SEK, NOK, DKK,
\* PLN, CZK, HUF, ILS, MXN, BRL, ARS, CLP, and false for every other string, the
\* empty string included.
C13_SupportedExactlyTheTwenty ==
    Returned("IsSupportedCurrency") =>
        LET c == call.req[1] IN
            ret = <<Len(c) = 3 /\ FoldedCode(c) \in ClaimedCodes>>

\* "cLp" was found in the list
C13_Witness ==
    /\ Returned("IsSupportedCurrency")
    /\ call.req[1] = Str3("c", "L", "p")
    /\ ret = <<TRUE>>

\* "UDS" and the empty string were not
C13_WitnessRejected ==
    /\ Returned("IsSupportedCurrency")
    /\ call.req[1] \in {Str3("U", "D", "S"), <<>>}
    /\ ret = <<FALSE>>

\* a payment or transaction request that is valid but, perhaps, for its currency
OtherwiseValid(c) ==
    /\ c.req # Nil
    /\ AmountPositive(c.req[1])
    /\ MerchantValid(c.req[1])
    /\ MethodValid(c.req[1])
    /\ c.op = "ValidateTransactionRequest" => CaptureModeAllowed(c.req[1])

\* C14: the currency check of request validation is a shape check only and never
\* consults the supported list: any currency of 3 characters for which
\* IsSupportedCurrency is false (such as "XXX") passes validation in an otherwise
\* valid payment or transaction request.
C14_UnsupportedCurrencyPasses ==
    (Returned("ValidatePaymentRequest") \/ Returned("ValidateTransactionRequest"))
    /\ OtherwiseValid(call) =>
        LET r == call.req[1] IN
            Len(r.Currency) = 3 /\ ~IsSupportedCurrency(r.Currency) => result = Nil

\* the same, of the currencies whose UTF-8 encoding has 3 bytes
C14_ThreeByteCurrencyPasses ==
    (Returned("ValidatePaymentRequest") \/ Returned("ValidateTransactionRequest"))
    /\ OtherwiseValid(call) =>
        LET r == call.req[1] IN
            GoLen(r.Currency) = 3 /\ ~IsSupportedCurrency(r.Currency) => result = Nil

\* "XXX" passed in a payment request
C14_WitnessXXX ==
    /\ Returned("ValidatePaymentRequest")
    /\ OtherwiseValid(call)
    /\ call.req[1].Currency = Str3("X", "X", "X")
    /\ ~IsSupportedCurrency(call.req[1].Currency)
    /\ result = Nil

KindSentinels ==
    {"ErrNilRequest", "ErrInvalidCardNumber", "ErrInvalidExpiryDate", "ErrInvalidCVV",
     "ErrEmptyHolderName", "ErrInvalidAmount", "ErrInvalidCurrency",
     "ErrEmptyMerchantID", "ErrMissingPaymentMethod", "ErrMissingCardDetails"}

\* the kinds that can be told from the chain of err without reading its text
KindsOf(err) == {err[i].id : i \in 1..Len(err)} \cap KindSentinels

\* C16: every validation failure is a classified error that can be identified by its
\* kind and not by its message, as exactly one of NilRequest, InvalidCardNumber,
\* InvalidExpiryDate, InvalidCVV, EmptyHolderName, InvalidAmount, InvalidCurrency,
\* EmptyMerchantID, MissingPaymentMethod, MissingCardDetails; no validation failure
\* is an unclassified generic error.
C16_EveryFailureClassified ==
    pc = "returned" /\ call.op \in Validators /\ result # Nil =>
        Cardinality(KindsOf(result)) = 1

\* the same of the five kinds that have an error value: a failure of the number,
\* expiry, CVV, amount or currency check carries the value of its kind and no other
C16_SentinelKindsClassified ==
    pc = "returned" /\ call.op \in Validators /\ result # Nil
    /\ ~(\E i \in 1..Len(result) : result[i].id = "errors.New") =>
        Cardinality(KindsOf(result)) = 1

\* the operations that put the filters of a list request on the query
ListOps == {"ListTokens", "ListTransactions", "SearchTransactions"}

\* the request that the invocation has issued
Issued == sent[1]

\* C17: for every list request that is query-encoded (ListTokensRequest through
\* encodeQuery, ListTransactionsRequest and SearchTransactionsRequest in their
\* facades), Limit = 0 produces no "limit" parameter at all, and Limit = 10 produces
\* exactly one parameter whose key is "limit" and whose value is "10".
C17_LimitParameter ==
    call.op \in ListOps /\ call.req # Nil /\ sent # <<>> =>
        /\ call.req[1].Limit = 0 =>
            /\ "limit" \notin DOMAIN Issued.query
            /\ \A i \in 1..Len(Issued.rawQuery) : Issued.rawQuery[i].escaped # "limit"
        /\ call.req[1].Limit = 10 =>
            /\ "limit" \in DOMAIN Issued.query
            /\ Issued.query["limit"] = <<<<"1", "0">>>>
            /\ Cardinality({i \in 1..Len(Issued.rawQuery) :
                                Issued.rawQuery[i].escaped = "limit"}) = 1

\* the same of the two facades that build their query by hand
C17_LimitParameterByHand ==
    call.op \in {"ListTransactions", "SearchTransactions"} /\ call.req # Nil
    /\ sent # <<>> =>
        /\ call.req[1].Limit = 0 =>
            /\ "limit" \notin DOMAIN Issued.query
            /\ \A i \in 1..Len(Issued.rawQuery) : Issued.rawQuery[i].escaped # "limit"
        /\ call.req[1].Limit = 10 =>
            /\ "limit" \in DOMAIN Issued.query
            /\ Issued.query["limit"] = <<<<"1", "0">>>>
            /\ Cardinality({i \in 1..Len(Issued.rawQuery) :
                                Issued.rawQuery[i].escaped = "limit"}) = 1

\* a ListTransactions request with Limit 10 went out with limit=10
C17_WitnessByHand ==
    /\ call.op = "ListTransactions"
    /\ call.req # Nil
    /\ call.req[1].Limit = 10
    /\ sent # <<>>
    /\ \E i \in 1..Len(Issued.rawQuery) :
        Issued.rawQuery[i].escaped = "limit" /\ Issued.rawQuery[i].value = <<"1", "0">>

\* the fields of the struct given to encodeQuery that are booleans with a wire key
BoolFieldsWithKey(struct) ==
    {i \in 1..Len(struct) :
        struct[i].kind = "bool" /\ struct[i].tag \notin {"", "-"}}

\* the text of a boolean
BoolText(b) == IF b THEN <<"t", "r", "u", "e">> ELSE <<"f", "a", "l", "s", "e">>

\* C18: encodeQuery emits every boolean field that carries a wire key, with the value
\* "true" or "false": a boolean field set to false is emitted as "false" and is never
\* skipped as an empty value.
C18_BooleansAlwaysEmitted ==
    Returned("encodeQuery") /\ call.req # Nil =>
        LET struct == call.req[1]
            values == ret[1]
        IN  /\ \A i \in BoolFieldsWithKey(struct) :
                /\ struct[i].tag \in DOMAIN values
                /\ \E j \in 1..Len(values[struct[i].tag]) :
                        values[struct[i].tag][j] = BoolText(struct[i].val)
            /\ \A k \in {struct[i].tag : i \in BoolFieldsWithKey(struct)} :
                Len(values[k]) >= Cardinality({i \in BoolFieldsWithKey(struct) :
                                                    struct[i].tag = k})

\* a struct with a false and a zero integer came back with the false alone
C18_Witness ==
    /\ Returned("encodeQuery")
    /\ call.req # Nil
    /\ Len(call.req[1]) = 2
    /\ call.req[1][1] = [tag |-> "active", kind |-> "bool", val |-> FALSE]
    /\ call.req[1][2] = [tag |-> "limit", kind |-> "int", val |-> 0]
    /\ DOMAIN ret[1] = {"active"}
    /\ ret[1]["active"] = <<<<"f", "a", "l", "s", "e">>>>

\* the wire keys of the fields of the request of a list operation, in the order in
\* which the fields are declared
DeclarationOrderOf(op) ==
    CASE op = "ListTransactions" ->
            <<"merchant_id", "status", "type", "start_date", "end_date", "reference",
              "min_amount", "max_amount", "currency", "limit", "offset", "sort_by",
              "sort_order">>
      [] op = "SearchTransactions" ->
            <<"q", "merchant_id", "start_date", "end_date", "limit", "offset">>
      [] op = "ListTokens" ->
            <<"customer_id,omitempty", "limit,omitempty", "offset,omitempty">>

\* the place of the key k in the sequence order
PlaceIn(order, k) == CHOOSE i \in 1..Len(order) : order[i] = k

\* the items of the query string follow the sequence order
Follows(items, order) ==
    /\ \A i \in 1..Len(items) : \E n \in 1..Len(order) : order[n] = items[i].key
    /\ \A i, j \in 1..Len(items) :
        i < j => PlaceIn(order, items[i].key) <= PlaceIn(order, items[j].key)

APIErrorsIn(err) == {i \in 1..Len(err) : err[i].id = "*APIError"}

\* the transport delivered a response to the invocation, which has returned
Responded == pc = "returned" /\ resp # <<>> /\ resp[1].kind = "response"

\* C20: every HTTP response whose status is not 2xx is turned by doRequest into a
\* structured APIError carrying the numeric status code and a message, and is never
\* returned to the facade as a successful response; every 2xx response is returned
\* without error.
C20_Non2xxIsAPIError ==
    Responded =>
        IF resp[1].status \in 200..299
        THEN APIErrorsIn(result) = {} /\ DoRequestFinish(resp[1]).err = Nil
        ELSE /\ DoRequestFinish(resp[1]).resp = Nil
             /\ \E i \in APIErrorsIn(result) :
                    result[i].StatusCode \in Nat /\ result[i].Message # ""

\* the same with the line drawn where the code draws it: a status of 400 or more
\* becomes an APIError, a status below 400 is returned as a success
C20_From400IsAPIError ==
    Responded =>
        IF resp[1].status < 400
        THEN APIErrorsIn(result) = {} /\ DoRequestFinish(resp[1]).err = Nil
        ELSE /\ DoRequestFinish(resp[1]).resp = Nil
             /\ \E i \in APIErrorsIn(result) :
                    result[i].StatusCode \in Nat /\ result[i].Message # ""

\* a 304 with a JSON body came back from the facade as a success
C20_WitnessNotModified ==
    /\ Responded
    /\ resp[1].status = 304
    /\ resp[1].body = "json"
    /\ result = Nil

\* the type assertion err.(*APIError): the error itself, not something it wraps,
\* is an *APIError
IsAPIError(err) == err # Nil /\ err[1].id = "*APIError"

\* C21: when the API answers a facade call such as CreatePayment with an error
\* response, the error the facade returns to the caller is itself an *APIError: the
\* type assertion err.(*APIError) of the README succeeds and exposes StatusCode,
\* Message and Code.
C21_TypeAssertionSucceeds ==
    Responded /\ resp[1].status >= 400 =>
        /\ IsAPIError(result)
        /\ {"StatusCode", "Message", "Code"} \subseteq DOMAIN result[1]

\* what holds in its place: the *APIError is wrapped by the facade and is found by
\* errors.As, one level down
C21_FoundByErrorsAs ==
    Responded /\ resp[1].status >= 400 =>
        /\ ~IsAPIError(result)
        /\ APIErrorsIn(result) = {2}
        /\ result[1].id = "fmt.wrapError"

\* CreatePayment was answered with a 404 and returned an error
C21_WitnessWrapped ==
    /\ Responded
    /\ call.op = "CreatePayment"
    /\ resp[1].status = 404
    /\ ~IsAPIError(result)
    /\ APIErrorsIn(result) # {}

ContextCanceled == Sentinel("context.Canceled", "context canceled")
ContextDeadlineExceeded == Sentinel("context.DeadlineExceeded", "context deadline exceeded")

\* err is classified as a cancellation: the error of the context is in its chain,
\* and it is neither a validation failure nor an API error
CancellationClassified(err) ==
    /\ err # Nil
    /\ ErrorsIs(err, ContextCanceled) \/ ErrorsIs(err, ContextDeadlineExceeded)
    /\ ~IsValidationFailure(err)
    /\ APIErrorsIn(err) = {}

\* the invocation has returned after the signal fired: the HTTP call was aborted
\* and the error tells the cancellation
ReturnedCancelled ==
    /\ pc = "returned"
    /\ resp # <<>>
    /\ resp[1].kind = "error"
    /\ CancellationClassified(result)
    /\ ctx = "canceled" => ErrorsIs(result, ContextCanceled)
    /\ ctx = "deadline" => ErrorsIs(result, ContextDeadlineExceeded)

FailedOnTheWire ==
    /\ pc = "returned"
    /\ resp # <<>>
    /\ resp[1].kind = "error" \/ resp[1].status >= 400

\* C23: request execution is single-shot: every facade invocation issues at most one
\* HTTP request, and after a transport failure or an error response no further
\* request is issued for that invocation (no retry, no backoff).
C23_SingleShot ==
    /\ Len(sent) <= 1
    /\ resp # <<>> => Len(sent) = 1
    /\ FailedOnTheWire => Len(sent) = 1 /\ result # Nil

\* a payment answered with a 500 came back as an error after its one request
C23_Witness ==
    /\ FailedOnTheWire
    /\ call.op = "CreatePayment"
    /\ resp[1].kind = "response"
    /\ resp[1].status = 500
    /\ Len(sent) = 1
    /\ result # Nil

\* the amount of n thousandths cut after its second decimal, toward zero
TruncatedToCents(n) == IF n < 0 THEN 0 - (((0 - n) \div 10) * 10) ELSE (n \div 10) * 10

\* C24: FormatAmount truncates every amount toward zero to 2 fractional digits and
\* never rounds (100.996 gives 100.99), so that every amount that already has at most
\* 2 fractional digits is returned unchanged (100.0 gives 100.0, 100.25 gives 100.25).
C24_TruncatesToCents ==
    Returned("FormatAmount") =>
        /\ ret = <<Float(TruncatedToCents(call.req[1].milli))>>
        /\ call.req[1].milli % 10 = 0 => ret = call.req

\* the same of the amounts that have a third decimal: they are cut, never rounded
C24_ThirdDecimalCut ==
    Returned("FormatAmount") /\ call.req[1].milli % 10 # 0 =>
        ret = <<Float(TruncatedToCents(call.req[1].milli))>>

\* the four amounts of the test come out as the test expects
C24_TestCases ==
    Returned("FormatAmount") =>
        /\ call.req[1] = Float(100000) => ret = <<Float(100000)>>
        /\ call.req[1] = Float(100250) => ret = <<Float(100250)>>
        /\ call.req[1] = Float(100123) => ret = <<Float(100120)>>
        /\ call.req[1] = Float(100996) => ret = <<Float(100990)>>

\* 0.29 came back as 0.28
C24_WitnessLostCent ==
    /\ Returned("FormatAmount")
    /\ call.req[1] = Float(290)
    /\ ret = <<Float(280)>>

\* a client has just been built: the last of clients, from the Config call.req
Built == call.op \in {"NewClient", "NewSDK"}

LastClient == clients[Len(clients)].client

\* what the caller gave: the Config of the call, Config{} for nil
Given == IF call.req = Nil THEN ZeroConfig ELSE call.req[1]

C25_WitnessOwnHTTPClient ==
    /\ Built
    /\ call.req # Nil
    /\ Given.Timeout = 0
    /\ Given.HTTPClient # Nil
    /\ LastClient.httpClient[1].Timeout # DefaultTimeout

\* the timeout a Config asks for
AskedTimeout(c) == IF c.Timeout = 0 THEN DefaultTimeout ELSE c.Timeout

\* C28: NewClient leaves the Config of the caller unchanged: after any sequence of
\* NewClient and NewSDK calls on the same Config, BaseURL, Timeout and HTTPClient
\* hold what the caller set, so that a later client built from that Config after
\* only Timeout was changed gets the new timeout and does not share the HTTP client
\* of an earlier one.
C28_ConfigUnchanged ==
    /\ Built => cfg = call.req
    /\ \A i, j \in 1..Len(clients) :
        i < j /\ clients[i].config # Nil /\ clients[i].config[1].HTTPClient = Nil =>
            /\ clients[j].client.httpClient[1].Timeout =
                    AskedTimeout(clients[j].config[1])
            /\ clients[j].client.httpClient[1].id # clients[i].client.httpClient[1].id

\* the Config came back from NewClient with fields the caller had left unset
C28_WitnessWritten ==
    /\ Built
    /\ call.req # Nil
    /\ call.req[1].BaseURL = <<>> /\ cfg[1].BaseURL = DefaultBaseURL
    /\ call.req[1].Timeout = 0 /\ cfg[1].Timeout = DefaultTimeout
    /\ call.req[1].HTTPClient = Nil /\ cfg[1].HTTPClient # Nil

\* the second client, built after the caller had set Timeout to 60, has the
\* http.Client of the first and its timeout of 30
C28_WitnessShared ==
    /\ Len(clients) = 2
    /\ clients[1].config # Nil
    /\ clients[1].config[1].HTTPClient = Nil
    /\ clients[2].config[1].Timeout = 60
    /\ clients[2].client.httpClient = clients[1].client.httpClient
    /\ clients[2].client.httpClient[1].Timeout = DefaultTimeout

\* C27: for every HTTP response with status >= 400, the APIError returned by
\* doRequest has StatusCode equal to the HTTP status of the response, whatever the
\* body contains (unreadable, not JSON, or JSON carrying a status_code field).
C27_StatusCodeIsHTTPStatus ==
    Responded /\ resp[1].status >= 400 =>
        /\ IsAPIError(DoRequestFinish(resp[1]).err)
        /\ DoRequestFinish(resp[1]).err[1].StatusCode = resp[1].status
        /\ \A i \in APIErrorsIn(result) : result[i].StatusCode = resp[1].status

\* the same of the bodies that carry no status_code of their own
C27_StatusCodeKeptWithoutField ==
    Responded /\ resp[1].status >= 400 /\ resp[1].body # "json_status" =>
        /\ IsAPIError(DoRequestFinish(resp[1]).err)
        /\ DoRequestFinish(resp[1]).err[1].StatusCode = resp[1].status

\* a 500 whose JSON body says status_code 418 came back as an APIError of 418
C27_WitnessOverwritten ==
    /\ Responded
    /\ resp[1].status = 500
    /\ resp[1].body = "json_status"
    /\ \E i \in APIErrorsIn(result) : result[i].StatusCode = 418

\* the JSON body of the request the invocation issued
Wire == sent[1].json

\* the field of key k is on the wire with the value v
OnWire(k, v) == k \in DOMAIN Wire.fields /\ Wire.fields[k].val = v

\* C26: the JSON body of a request omits every optional field that is absent instead
\* of sending null, and carries the present values unmodified: an unset capture
\* amount is omitted while a present capture amount of zero is sent as 0, and the
\* CVVCheck and AVSCheck flags of a TransactionRequest reach the wire with the values
\* the caller set.
C26_BodyAsStated ==
    sent # <<>> /\ Wire.kind = "object" =>
        /\ call.op = "CaptureTransaction" =>
                IF call.req = Nil \/ call.req[1].Amount = Nil
                THEN "amount" \notin DOMAIN Wire.fields
                ELSE OnWire("amount", call.req[1].Amount[1])
        /\ call.op = "CapturePayment" =>
                IF call.req = Nil THEN "amount" \notin DOMAIN Wire.fields
                ELSE OnWire("amount", call.req[1])
        /\ call.op = "AuthorizeTransaction" =>
                /\ OnWire("cvv_check", call.req[1].CVVCheck)
                /\ OnWire("avs_check", call.req[1].AVSCheck)
                /\ call.req[1].CardDetails = Nil => "card_details" \notin DOMAIN Wire.fields

\* the part about the capture amount, and the flags that are set to true
C26_CaptureAmountAndTrueFlags ==
    sent # <<>> /\ Wire.kind = "object" =>
        /\ call.op = "CaptureTransaction" =>
                IF call.req = Nil \/ call.req[1].Amount = Nil
                THEN "amount" \notin DOMAIN Wire.fields
                ELSE OnWire("amount", call.req[1].Amount[1])
        /\ call.op = "CapturePayment" =>
                IF call.req = Nil THEN "amount" \notin DOMAIN Wire.fields
                ELSE OnWire("amount", call.req[1])
        /\ call.op = "AuthorizeTransaction" =>
                /\ call.req[1].CVVCheck => OnWire("cvv_check", TRUE)
                /\ call.req[1].AVSCheck => OnWire("avs_check", TRUE)
                /\ ~call.req[1].CVVCheck => "cvv_check" \notin DOMAIN Wire.fields
                /\ ~call.req[1].AVSCheck => "avs_check" \notin DOMAIN Wire.fields

\* a capture of the amount zero was sent with "amount": 0
C26_WitnessZeroAmount ==
    /\ sent # <<>>
    /\ call.op = "CaptureTransaction"
    /\ call.req # Nil
    /\ call.req[1].Amount = <<Float(0)>>
    /\ OnWire("amount", Float(0))

\* an authorization whose caller set CVVCheck to false and AVSCheck to true went
\* out without a cvv_check field
C26_WitnessFlagDropped ==
    /\ sent # <<>>
    /\ call.op = "AuthorizeTransaction"
    /\ ~call.req[1].CVVCheck
    /\ call.req[1].AVSCheck
    /\ "cvv_check" \notin DOMAIN Wire.fields
    /\ OnWire("avs_check", TRUE)

\* C29: every HTTP response body obtained during a facade operation is closed before
\* the operation returns, on success and on every error path: after any sequence of
\* operations, DeleteToken included, no response body is left open.
C29_NoBodyLeftOpen ==
    pc = "returned" => bodyState # "open"

\* the same of every operation but DeleteToken
C29_ClosedButDeleteToken ==
    pc = "returned" /\ call.op # "DeleteToken" =>
        /\ bodyState # "open"
        /\ Responded => bodyState = "closed"

\* DeleteToken returned nil on a 204 and left the body of the response open
C29_WitnessDeleteToken ==
    /\ Returned("DeleteToken")
    /\ Responded
    /\ resp[1].status = 204
    /\ result = Nil
    /\ bodyState = "open"

\* the operations that turn a nil request down before any HTTP request
NilRefused ==
    {"CreatePayment", "AuthorizeTransaction", "CreateToken", "RefundTransaction",
     "SearchTransactions"}

\* those that send an empty record, or no body, for a nil request
NilSentEmpty ==
    {"CaptureTransaction", "VoidTransaction", "ListTransactions", "ListTokens",
     "CreateRefund"}

\* C30: no facade operation ever sends a JSON null request body: given a nil request
\* record, each operation either returns an error before any HTTP request
\* (CreatePayment, AuthorizeTransaction, CreateToken, RefundTransaction,
\* SearchTransactions) or sends an empty record or no body (CaptureTransaction,
\* VoidTransaction, ListTransactions, ListTokens, CreateRefund).
C30_NeverJSONNull ==
    /\ \A i \in 1..Len(sent) : sent[i].json.kind # "null"
    /\ pc # "idle" /\ call.req = Nil /\ call.op \in NilRefused =>
            sent = <<>> /\ pc = "returned" /\ result # Nil
    /\ pc # "idle" /\ call.req = Nil /\ call.op \in NilSentEmpty =>
            /\ Len(sent) = 1
            /\ \/ Wire.kind = "none"
               \/ Wire.kind = "object" /\ DOMAIN Wire.fields = {}

\* the same of every operation but CreateRefund
C30_NeverJSONNullButCreateRefund ==
    call.op # "CreateRefund" =>
        /\ \A i \in 1..Len(sent) : sent[i].json.kind # "null"
        /\ pc # "idle" /\ call.req = Nil /\ call.op \in NilRefused =>
                sent = <<>> /\ pc = "returned" /\ result # Nil
        /\ pc # "idle" /\ call.req = Nil /\ call.op \in NilSentEmpty =>
                /\ Len(sent) = 1
                /\ \/ Wire.kind = "none"
                   \/ Wire.kind = "object" /\ DOMAIN Wire.fields = {}

\* CreateRefund(nil) put the JSON null on the wire
C30_WitnessCreateRefundNull ==
    /\ call.op = "CreateRefund"
    /\ call.req = Nil
    /\ Len(sent) = 1
    /\ Wire.kind = "null"

====
